---------------------------- MODULE Spec2Model ----------------------------
(***************************************************************************)
(* Model of the specification validation tools of spec-building/automation *)
(*                                                                         *)
(*   validate-all.py                      the orchestrator (SpecOrch)      *)
(*   validation/score-spec-quality.py     the quality scorer (SpecScorer)  *)
(*   validation/validate-spec-structure.py the structural validator        *)
(*                                         (SpecStructure)                 *)
(*   validation/validate-requirements-traceability.py (SpecTrace)          *)
(*   validation/validate-alignment.py                 (SpecAlign)          *)
(*   validation/validate-spec-links.py                (SpecLinks)          *)
(*   scripts/generate_phase_plan_v2.py                (SpecPlan)           *)
(*                                                                         *)
(* Each tool is one operating-system process; a specification below runs   *)
(* one tool from its entry point to its exit.  The variables of the other  *)
(* tools stay at their idle values.                                        *)
(***************************************************************************)
EXTENDS Integers, Sequences, FiniteSets, TLC

VARIABLES
    pc,               \* position of the running tool
    exit_code,        \* exit code of the process, NoExit while it runs
    \* ---- validate-all.py
    argv,             \* sys.argv
    spec_exists,      \* file system: Path(spec_path).exists()
    is_project,       \* file system: ../roadmap or ../phase-plans exists
    i,                \* index of the loop over validations (1-based)
    results,          \* ValidationRunner.results: name -> [status, output]
    passed,           \* ValidationRunner.passed
    failed,           \* ValidationRunner.failed
    invoked,          \* the subprocess.run calls made so far, with outcome
    quality_score,    \* _generate_final_report: quality_score (NoScore = None)
    next_steps,       \* _generate_final_report: the "Next Steps" branch printed
    \* ---- score-spec-quality.py
    dimensions,       \* args.dimensions (<<>> = None: not given)
    strict,           \* args.strict
    content,          \* self.content, as the match counts of the scorer's patterns
    report,           \* the QualityReport, NoReport until it is created
    \* ---- validate-spec-structure.py
    lines,            \* self.lines, the document split into lines
    check_links,      \* args.check_links
    spec_dir,         \* file system: the .spec/ or spec/ directory beside the document
    issues,           \* execute: the collected issues
    verdict,          \* _report_results: the PASSED or FAILED line printed
    \* ---- validate-requirements-traceability.py
    tr_content,       \* the spec file's content, as its lines
    requirements,     \* self.requirements: type -> id -> [text, traced]
    traces,           \* self.traces: kind -> the ids traced (the keys set True)
    matrix,           \* _report_results: the traceability matrix printed
    scenario_files,   \* file system: the two acceptance-scenarios.md beside the spec
    \* ---- validate-alignment.py
    project,          \* file system: the project directory given on the command line
    spec_data,        \* self.spec_data
    roadmap_data,     \* self.roadmap_data
    phase_plans,      \* self.phase_plans: phase key -> plan data, in insertion order
    report_file,      \* file system: alignment-validation-report.json was written
    \* ---- the validators that keep message lists
    errors,           \* self.errors
    warnings,         \* self.warnings
    \* ---- validate-spec-links.py
    link_fs,          \* file system: the markdown files beside the spec, by name
    md_files,         \* validate: md_files, the names of the files to check
    file_k,           \* validate: index of the loop over md_files (1-based)
    total_links,      \* self.total_links
    valid_links,      \* self.valid_links
    \* ---- scripts/generate_phase_plan_v2.py
    plan_argv,        \* sys.argv[1:]: the config path and the optional project root
    config_file,      \* file system: the JSON configuration file
    config,           \* self.config
    gen_k,            \* generate_plan: index of the next section generator
    output_lines,     \* self.output_lines, by the sections generated into it
    raised,           \* the exception generate_plan raised, "none" if none
    output_dirs,      \* file system: the phase output directories that exist
    work_plan         \* file system: WORK_PLAN.md of each phase directory

orchVars == <<argv, spec_exists, is_project, i, results, passed, failed,
              invoked, quality_score, next_steps>>

scorerVars == <<dimensions, strict, content, report>>
structVars == <<lines, check_links, spec_dir, issues, verdict>>

traceVars == <<tr_content, requirements, traces, matrix, scenario_files>>
alignVars == <<project, spec_data, roadmap_data, phase_plans, report_file>>
listVars == <<errors, warnings>>
linkVars == <<link_fs, md_files, file_k, total_links, valid_links>>
planVars == <<plan_argv, config_file, config, gen_k, output_lines, raised,
              output_dirs, work_plan>>

vars == <<pc, exit_code, orchVars, scorerVars, structVars, traceVars,
          alignVars, listVars, linkVars, planVars>>

\* The variables each tool leaves alone.
notOrch == <<scorerVars, structVars, traceVars, alignVars, listVars,
            linkVars, planVars>>
notScorer == <<argv, is_project, i, results, passed, failed, invoked,
               quality_score, next_steps, structVars, traceVars, alignVars,
               listVars, linkVars, planVars>>
notStruct == <<argv, is_project, i, results, passed, failed, invoked,
               quality_score, next_steps, dimensions, content, report,
               traceVars, alignVars, listVars, linkVars, planVars>>
notTrace == <<orchVars, scorerVars, structVars, alignVars, linkVars, planVars>>
notAlign == <<orchVars, scorerVars, structVars, traceVars, linkVars, planVars>>
notLinks == <<orchVars, scorerVars, structVars, traceVars, alignVars,
             planVars>>
notPlan == <<orchVars, scorerVars, structVars, traceVars, alignVars,
            listVars, linkVars>>

NoExit == -1
NoScore == -1

Min(a, b) == IF a <= b THEN a ELSE b
Max(a, b) == IF a >= b THEN a ELSE b

\* The values of a tool's variables while another tool runs.
NoReport == [total_score |-> 0, max_score |-> 0, dimensions |-> <<>>,
             status |-> "none", risk_level |-> "none"]
NoContent == [none |-> TRUE]
NoDirectory == [exists |-> FALSE, files |-> <<>>]

IdleOrch ==
    /\ argv = <<>>
    /\ is_project = FALSE
    /\ i = 1
    /\ results = [k \in {} |-> 0]
    /\ passed = 0
    /\ failed = 0
    /\ invoked = <<>>
    /\ quality_score = NoScore
    /\ next_steps = "none"

IdleScorer ==
    /\ dimensions = <<>>
    /\ content = NoContent
    /\ report = NoReport

IdleStruct ==
    /\ lines = <<>>
    /\ check_links = FALSE
    /\ spec_dir = NoDirectory
    /\ issues = <<>>
    /\ verdict = "none"

NoRequirements == [functional |-> <<>>, non_functional |-> <<>>]
NoTraces == [to_architecture |-> {}, to_acceptance |-> {}, to_risks |-> {}]

IdleTrace ==
    /\ tr_content = <<>>
    /\ requirements = NoRequirements
    /\ traces = NoTraces
    /\ matrix = <<>>
    /\ scenario_files = <<>>

NoProject == [none |-> TRUE]
NoSpecData ==
    [requirements |-> [functional |-> <<>>, non_functional |-> <<>>],
     has_requirements |-> FALSE,
     tech_stack |-> [frontend |-> <<>>, backend |-> <<>>, database |-> <<>>],
     has_tech_stack |-> FALSE,
     timeline |-> <<>>, team_size |-> <<>>]
NoRoadmapData == [has_phases |-> FALSE, phases |-> <<>>, deliverables |-> {}]

IdleAlign ==
    /\ project = NoProject
    /\ spec_data = NoSpecData
    /\ roadmap_data = NoRoadmapData
    /\ phase_plans = <<>>
    /\ report_file = FALSE

IdleLists ==
    /\ errors = <<>>
    /\ warnings = <<>>

IdleLinks ==
    /\ link_fs = <<>>
    /\ md_files = <<>>
    /\ file_k = 1
    /\ total_links = 0
    /\ valid_links = 0

NoConfig == [none |-> TRUE]

IdlePlan ==
    /\ plan_argv = <<>>
    /\ config_file = NoConfig
    /\ config = NoConfig
    /\ gen_k = 1
    /\ output_lines = <<>>
    /\ raised = "none"
    /\ output_dirs = {}
    /\ work_plan = <<>>

(***************************************************************************)
(*                         validate-all.py                                 *)
(***************************************************************************)

\* The command lines tried.  Any argument beyond the spec path, such as a
\* request to stop at the first critical failure, makes len(sys.argv) # 2.
StopFlag == "--stop-on-first-failure"

Argvs ==
    { <<"validate-all.py">>,
      <<"validate-all.py", "SPEC.md">>,
      <<"validate-all.py", "SPEC.md", StopFlag>> }

\* run_all: the validations list, in its order.
validations ==
    << [name |-> "Structure Validation",      script |-> "validate-spec-structure.py"],
       [name |-> "Link Validation",           script |-> "validate-spec-links.py"],
       [name |-> "Quality Scoring",           script |-> "score-spec-quality.py"],
       [name |-> "Requirements Traceability", script |-> "validate-requirements-traceability.py"] >>

AlignmentName == "Alignment Validation"
AlignmentScript == "validate-alignment.py"
ImprovementScript == "suggest-spec-improvements.py"

\* What one subprocess.run(..., timeout=30) call can do: return with exit
\* code 0, return with another exit code, raise TimeoutExpired, or raise
\* another exception (the interpreter cannot be started).
Outcomes == {"exit0", "nonzero", "timeout", "raise"}

\* The totals the orchestrator's pattern 'TOTAL SCORE:\s*(\d+)/100' can find
\* in a child's standard output; NoScore when the pattern does not match.
ScoreLines == {NoScore, 10, 84, 85, 89, 90, 100}

\* The standard output of a child, as far as the orchestrator reads it: the
\* total of its TOTAL SCORE line.  score-spec-quality.py prints the line
\* before it returns 0 (console format, four dimensions); a run that ends
\* with another exit code may or may not have reached it.  The other scripts
\* never print it.
Stdouts(script, outcome) ==
    IF script = "score-spec-quality.py" /\ outcome = "exit0"
    THEN ScoreLines \ {NoScore}
    ELSE IF script = "score-spec-quality.py" /\ outcome = "nonzero"
    THEN ScoreLines
    ELSE {NoScore}

\* _run_validation: the status recorded for an outcome.
StatusOfTimeoutAsError(outcome) ==
    CASE outcome = "exit0"   -> "PASSED"
      [] outcome = "nonzero" -> "FAILED"
      [] outcome = "timeout" -> "ERROR"
      [] outcome = "raise"   -> "ERROR"

StatusOf(outcome) ==
    CASE outcome = "exit0"   -> "PASSED"
      [] outcome = "nonzero" -> "FAILED"
      [] outcome = "timeout" -> "TIMEOUT"
      [] outcome = "raise"   -> "ERROR"

\* _run_validation: the output stored with the status.  The score line of the
\* child's stdout survives in "output" only on the two returning branches.
OutputOf(outcome, stdout) ==
    CASE outcome = "exit0"   -> [text |-> "stdout",         total |-> stdout]
      [] outcome = "nonzero" -> [text |-> "stdout+stderr",  total |-> stdout]
      [] outcome = "timeout" -> [text |-> "Validation timed out after 30 seconds",
                                 total |-> NoScore]
      [] outcome = "raise"   -> [text |-> "str(e)",         total |-> NoScore]

\* dict assignment  d[key] = value
Put(d, key, value) ==
    [k \in DOMAIN d \cup {key} |-> IF k = key THEN value ELSE d[k]]

EmptyDict == [k \in {} |-> 0]

InitOrch ==
    /\ pc = "main"
    /\ exit_code = NoExit
    /\ argv \in Argvs
    /\ spec_exists \in BOOLEAN
    /\ is_project \in BOOLEAN
    /\ i = 1
    /\ results = EmptyDict
    /\ passed = 0
    /\ failed = 0
    /\ invoked = <<>>
    /\ quality_score = NoScore
    /\ next_steps = "none"
    /\ strict = FALSE
    /\ IdleScorer
    /\ IdleStruct
    /\ IdleTrace
    /\ IdleAlign
    /\ IdleLists
    /\ IdleLinks
    /\ IdlePlan

\* main(): usage and existence checks, then ValidationRunner(spec_path).
main ==
    /\ pc = "main"
    /\ IF Len(argv) # 2 \/ ~spec_exists
       THEN pc' = "exited" /\ exit_code' = 1
       ELSE pc' = "run_validation" /\ exit_code' = exit_code
    /\ UNCHANGED <<orchVars, notOrch>>

\* The successor of the i-th validation in run_all's for loop.
AfterValidationStopOnFailure(k, outcome) ==
    IF k = Len(validations) \/ outcome # "exit0"
    THEN "is_project_structure" ELSE "run_validation"

AfterValidation(k, outcome) ==
    IF k = Len(validations) THEN "is_project_structure" ELSE "run_validation"

\* _run_validation(validations[i]) and the loop step.
run_validation ==
    /\ pc = "run_validation"
    /\ \E outcome \in Outcomes :
         \E stdout \in Stdouts(validations[i].script, outcome) :
            /\ invoked' = Append(invoked, [script |-> validations[i].script,
                                           outcome |-> outcome])
            /\ results' = Put(results, validations[i].name,
                              [status |-> StatusOf(outcome),
                               output |-> OutputOf(outcome, stdout)])
            /\ passed' = IF outcome = "exit0" THEN passed + 1 ELSE passed
            /\ failed' = IF outcome = "exit0" THEN failed ELSE failed + 1
            /\ pc' = AfterValidation(i, outcome)
    /\ i' = i + 1
    /\ UNCHANGED <<exit_code, argv, spec_exists, is_project, quality_score,
                   next_steps, notOrch>>

\* run_all: if self._is_project_structure()
is_project_structure ==
    /\ pc = "is_project_structure"
    /\ pc' = IF is_project THEN "run_alignment_validation"
                           ELSE "run_improvement_analysis"
    /\ UNCHANGED <<exit_code, orchVars, notOrch>>

\* _run_alignment_validation: a return code of 0 is PASSED, any other is
\* WARNING; every exception, TimeoutExpired included, is only printed.
run_alignment_validation ==
    /\ pc = "run_alignment_validation"
    /\ \E outcome \in Outcomes :
         /\ invoked' = Append(invoked, [script |-> AlignmentScript,
                                        outcome |-> outcome])
         /\ results' =
              CASE outcome = "exit0" ->
                     Put(results, AlignmentName,
                         [status |-> "PASSED",
                          output |-> [text |-> "stdout", total |-> NoScore]])
                [] outcome = "nonzero" ->
                     Put(results, AlignmentName,
                         [status |-> "WARNING",
                          output |-> [text |-> "stdout", total |-> NoScore]])
                [] OTHER -> results
         /\ passed' = IF outcome = "exit0" THEN passed + 1 ELSE passed
    /\ pc' = "run_improvement_analysis"
    /\ UNCHANGED <<exit_code, argv, spec_exists, is_project, i, failed,
                   quality_score, next_steps, notOrch>>

\* _run_improvement_analysis, had it recorded its run as _run_validation does.
run_improvement_analysis_recorded ==
    /\ pc = "run_improvement_analysis"
    /\ \E outcome \in Outcomes :
         /\ invoked' = Append(invoked, [script |-> ImprovementScript,
                                        outcome |-> outcome])
         /\ results' = Put(results, "Improvement Analysis",
                           [status |-> StatusOf(outcome),
                            output |-> OutputOf(outcome, NoScore)])
         /\ passed' = IF outcome = "exit0" THEN passed + 1 ELSE passed
         /\ failed' = IF outcome = "exit0" THEN failed ELSE failed + 1
    /\ pc' = "generate_final_report"
    /\ UNCHANGED <<exit_code, argv, spec_exists, is_project, i,
                   quality_score, next_steps, notOrch>>

\* _run_improvement_analysis: runs whatever the validators found; its result
\* is only printed.
run_improvement_analysis ==
    /\ pc = "run_improvement_analysis"
    /\ \E outcome \in Outcomes :
         invoked' = Append(invoked, [script |-> ImprovementScript,
                                     outcome |-> outcome])
    /\ pc' = "generate_final_report"
    /\ UNCHANGED <<exit_code, argv, spec_exists, is_project, i, results,
                   passed, failed, quality_score, next_steps, notOrch>>

\* _generate_final_report: quality_score as extracted from results.
ExtractedScore ==
    IF "Quality Scoring" \in DOMAIN results
    THEN results["Quality Scoring"].output.total
    ELSE NoScore

\* Python truth value of quality_score: None and 0 are false.
Truthy(score) == score # NoScore /\ score # 0

\* "Next Steps", had the test of self.failed been left out.
NextStepsIgnoringFailures(score) ==
    IF Truthy(score) /\ score < 90 THEN "Target quality score of 90+"
    ELSE "Spec is ready to proceed!"

\* _generate_final_report: the branch of "Next Steps" that is printed.
NextSteps(score) ==
    IF failed > 0 THEN "Fix validation failures"
    ELSE IF Truthy(score) /\ score < 90 THEN "Target quality score of 90+"
    ELSE "Spec is ready to proceed!"

\* _generate_final_report, then run_all and main return: the process ends
\* with exit code 0.  The summary file is taken to be writable.
generate_final_report ==
    /\ pc = "generate_final_report"
    /\ quality_score' = ExtractedScore
    /\ next_steps' = NextSteps(ExtractedScore)
    /\ pc' = "exited"
    /\ exit_code' = 0
    /\ UNCHANGED <<argv, spec_exists, is_project, i, results, passed, failed,
                   invoked, notOrch>>

NextOrch ==
    \/ main
    \/ run_validation
    \/ is_project_structure
    \/ run_alignment_validation
    \/ run_improvement_analysis
    \/ generate_final_report

SpecOrch == InitOrch /\ [][NextOrch]_vars


(***************************************************************************)
(*                    Properties of validate-all.py                        *)
(***************************************************************************)

CriticalNames == { validations[k].name : k \in 1..Len(validations) }
CriticalScripts == { validations[k].script : k \in 1..Len(validations) }
FailedStatuses == {"FAILED", "TIMEOUT", "ERROR"}

\* The name under which a script's result is recorded.
NameOfScript(script) ==
    IF script = AlignmentScript THEN AlignmentName
    ELSE (CHOOSE v \in { validations[k] : k \in 1..Len(validations) } :
             v.script = script).name

\* main() accepted the command line and run_all ran to its end.
RanToEnd == pc = "exited" /\ Len(argv) = 2 /\ spec_exists

SomeCriticalFailed ==
    \E n \in CriticalNames \cap DOMAIN results :
        results[n].status \in FailedStatuses

ScriptsInvoked == [k \in 1..Len(invoked) |-> invoked[k].script]

IsPrefix(s, t) == Len(s) <= Len(t) /\ \A k \in 1..Len(s) : s[k] = t[k]

\* C2: the orchestrator, run on an existing spec file, ends with a non-zero
\* exit code when a critical validator is recorded FAILED, TIMEOUT or ERROR,
\* and with exit code 0 when none is.
C2_ExitCodeFollowsCriticalValidators ==
    RanToEnd =>
        IF SomeCriticalFailed THEN exit_code # 0 ELSE exit_code = 0

\* C6: every validator invocation (Alignment included) that times out,
\* cannot be started, raises or exits non-zero leaves a record of that
\* failure in results, and the orchestrator does not end on it.
C6_EveryFailureLeavesARecord ==
    \A k \in 1..Len(invoked) :
        (invoked[k].script # ImprovementScript /\ invoked[k].outcome # "exit0")
        => /\ NameOfScript(invoked[k].script) \in DOMAIN results
           /\ results[NameOfScript(invoked[k].script)].status # "PASSED"
           /\ (pc = "exited" => exit_code = 0)

ExpectedScripts ==
    [k \in 1..Len(validations) |-> validations[k].script]
    \o (IF is_project THEN <<AlignmentScript>> ELSE <<>>)
    \o <<ImprovementScript>>

\* C8: the validators are invoked one after another in the order Structure,
\* Link, Quality Scoring, Requirements Traceability, then Alignment (only in a
\* project structure), each exactly once, whatever the outcomes of the
\* earlier ones.
C8_FixedOrderEachOnce ==
    /\ IsPrefix(ScriptsInvoked, ExpectedScripts)
    /\ (pc = "run_validation" => Len(invoked) = i - 1)
    /\ (pc = "generate_final_report" \/ RanToEnd
          => ScriptsInvoked = ExpectedScripts)

\* C8 witness: a finished run in a project structure whose first validator
\* failed and whose later validators, Alignment included, were all invoked.
C8_Witness ==
    /\ RanToEnd
    /\ is_project
    /\ invoked[1].outcome \in {"nonzero", "timeout", "raise"}
    /\ Len(invoked) = Len(validations) + 2
    /\ invoked[Len(validations) + 1].script = AlignmentScript

\* C9: a non-passing Alignment validator is recorded in results, and the
\* Alignment step never adds to failed and adds at most one to passed.
C9_AlignmentIsAdvisoryAndRecorded ==
    [][ pc = "run_alignment_validation"
        => /\ failed' = failed
           /\ passed' \in {passed, passed + 1}
           /\ (invoked'[Len(invoked')].outcome # "exit0"
                 => /\ AlignmentName \in DOMAIN results'
                    /\ passed' = passed)
      ]_vars

\* C10: the orchestrator accepts a request to stop at the first critical
\* failure, and in a run so requested no validator is invoked after the first
\* critical validator that failed.
C10_StopOnFirstCriticalFailure ==
    ( /\ pc = "exited"
      /\ spec_exists
      /\ \E k \in 1..Len(argv) : argv[k] = StopFlag )
    => /\ Len(invoked) >= 1
       /\ \A k \in 1..Len(invoked) :
             ( /\ invoked[k].script \in CriticalScripts
               /\ invoked[k].outcome # "exit0" )
             => \A m \in (k + 1)..Len(invoked) :
                   invoked[m].script \notin CriticalScripts \cup {AlignmentScript}

\* C11: a run that has failed triggers the improvement-suggestion follow-up,
\* and the follow-up, whatever its outcome, leaves results, passed, failed and
\* the exit status as they were.
C11_FollowUpRunsAndChangesNothing ==
    /\ []( ( (pc = "generate_final_report" \/ RanToEnd) /\ failed > 0 )
           => /\ Len(invoked) >= 1
              /\ invoked[Len(invoked)].script = ImprovementScript )
    /\ [][ pc = "run_improvement_analysis"
           => /\ results' = results
              /\ passed' = passed
              /\ failed' = failed
              /\ exit_code' = exit_code
              /\ pc' = "generate_final_report"
         ]_vars

\* C11 witness: a failed run whose follow-up timed out ended as a run whose
\* follow-up succeeds does.
C11_Witness ==
    /\ RanToEnd
    /\ failed > 0
    /\ invoked[Len(invoked)].script = ImprovementScript
    /\ invoked[Len(invoked)].outcome = "timeout"
    /\ "Improvement Analysis" \notin DOMAIN results
    /\ exit_code = 0

\* The validator invocations of the run (the follow-up is not a validator).
ValidatorsInvoked ==
    { k \in 1..Len(invoked) : invoked[k].script # ImprovementScript }

\* C12: when the final report is generated, every validator invoked in the
\* run has an entry in results and is counted in exactly one of passed and
\* failed: passed + failed, the reported total, is the number of validators
\* invoked.
C12_EveryValidatorRecordedAndCounted ==
    (pc = "generate_final_report" \/ RanToEnd)
    => /\ \A k \in ValidatorsInvoked :
             NameOfScript(invoked[k].script) \in DOMAIN results
       /\ passed = Cardinality({ n \in DOMAIN results :
                                   results[n].status = "PASSED" })
       /\ failed = Cardinality({ n \in DOMAIN results :
                                   results[n].status # "PASSED" })
       /\ passed + failed = Cardinality(ValidatorsInvoked)


(***************************************************************************)
(*                  validation/score-spec-quality.py                       *)
(***************************************************************************)

Dimensions == {"completeness", "clarity", "implementability", "testability"}

\* execute: the default of dimensions_to_score.
AllDimensions == <<"completeness", "clarity", "implementability", "testability">>

\* Bounds of the inputs: the length of an explicit --dimensions list and the
\* number of heading lines of a document.
MaxDims == 2
MaxHeadings == 2

\* '^(#{1,6})\s+(.+)$': a heading has one to six leading # characters.
MaxLevel == 6

\* max_score of every dimension.
MaxDimensionScore == 25

\* THRESHOLDS['good'], THRESHOLDS['acceptable']
ThresholdGood == 90
ThresholdAcceptable == 85

SeqsUpTo(S, n) == UNION { [1..m -> S] : m \in 0..n }

\* args.dimensions: None, or a list of one or more choices (nargs='+').
DimensionLists == {<<>>} \cup (SeqsUpTo(Dimensions, MaxDims) \ {<<>>})

\* _score_completeness: required_sections
required_sections ==
    << "Executive Summary", "Stakeholders", "Requirements",
       "System Architecture", "Risks", "Success Metrics",
       "Implementation Approach", "Constraints" >>

\* A line of the document whose text, after the characters before its first
\* whitespace (prefix), starts with a required section name in any letter
\* case: "## Risks and Mitigations" is SectionLine("##", "Risks").
SectionLine(prefix, name) == [prefix |-> prefix, name |-> name]

\* The lines that start the required sections numbered in present, all with
\* the same prefix.
RequiredSectionLines(prefix, present) ==
    { SectionLine(prefix, required_sections[k]) : k \in present }

\* A document, as the scorer reads it: its lines that start with a required
\* section name, its bracketed tokens "[...]" in document order, the number
\* of matches of each other pattern the scorer counts in self.content, the
\* three resource-planning searches, and the levels of the heading lines in
\* document order.
PoorDocument ==
    [ section_lines |-> {}, func_reqs |-> 0, nfr_reqs |-> 0,
      bracketed |-> <<"TODO", "tbd", "FIXME", "XXX">>,
      internal_links |-> 0,
      quantified |-> 0, headings |-> <<2>>, diagrams |-> 0, tables |-> 0,
      tech_mentions |-> 0, justified_choices |-> 0, has_timeline |-> FALSE,
      has_team |-> FALSE, has_budget |-> FALSE, dep_mentions |-> 0,
      risk_mentions |-> 0,
      measurable |-> 0, thresholds |-> 0, scenarios |-> 0, criteria |-> 0,
      metrics |-> 0 ]

RichDocument ==
    [ section_lines |-> RequiredSectionLines("#1, 3", 1..8), func_reqs |-> 20,
      nfr_reqs |-> 4, bracketed |-> <<>>,
      internal_links |-> 12,
      quantified |-> 24, headings |-> <<1, 2>>, diagrams |-> 2, tables |-> 10,
      tech_mentions |-> 5, justified_choices |-> 10, has_timeline |-> TRUE,
      has_team |-> TRUE, has_budget |-> TRUE, dep_mentions |-> 20,
      risk_mentions |-> 12,
      measurable |-> 50, thresholds |-> 10, scenarios |-> 8, criteria |-> 3,
      metrics |-> 12 ]

\* The documents scored: a poor and a rich document, each with the inputs of
\* one dimension ranging over the values around that dimension's thresholds.
CompletenessVariants(b) ==
    { [b EXCEPT !.section_lines = s, !.func_reqs = f, !.nfr_reqs = n,
                !.bracketed = p, !.internal_links = l] :
        s \in { {}, RequiredSectionLines("##", 1..8), RequiredSectionLines("###", 1..7),
                RequiredSectionLines("#1, 3", 1..8), RequiredSectionLines("#1, 3", 1..7) },
        f \in {0, 5, 20}, n \in {0, 4},
        p \in { <<>>, <<"TODO">>, <<"TBC">>, <<"TODO", "TBC">>,
                <<"TODO", "tbd", "FIXME", "XXX">> },
        l \in {0, 9, 12} }

ClarityVariants(b) ==
    { [b EXCEPT !.quantified = q, !.diagrams = d, !.tables = t] :
        q \in {0, 19, 24, 60}, d \in {0, 1, 3}, t \in {0, 10, 40} }

HeadingVariants(b) ==
    { [b EXCEPT !.headings = h] : h \in SeqsUpTo(1..MaxLevel, MaxHeadings) }

ImplementabilityVariants(b) ==
    { [b EXCEPT !.tech_mentions = t, !.justified_choices = j,
                !.has_timeline = tl, !.has_team = tm, !.has_budget = bu,
                !.dep_mentions = d, !.risk_mentions = r] :
        t \in {0, 3, 9}, j \in {0, 9, 40}, tl \in BOOLEAN, tm \in BOOLEAN,
        bu \in BOOLEAN, d \in {0, 40}, r \in {0, 30} }

TestabilityVariants(b) ==
    { [b EXCEPT !.measurable = m, !.thresholds = t, !.scenarios = s,
                !.criteria = c, !.metrics = q] :
        m \in {0, 20, 80}, t \in {0, 30}, s \in {0, 5, 20},
        c \in {0, 3, 9}, q \in {0, 12, 30} }

Documents ==
    UNION { CompletenessVariants(b) \cup ClarityVariants(b)
            \cup HeadingVariants(b) \cup ImplementabilityVariants(b)
            \cup TestabilityVariants(b) : b \in {PoorDocument, RichDocument} }

\* ---- _score_completeness

\* re.search(rf'^#{1,3}\s+{re.escape(section)}', ..., MULTILINE | IGNORECASE):
\* in the rf-string {1,3} is a replacement field, the tuple (1, 3), so the
\* pattern is '^#(1, 3)\s+<section>': a line that starts with '#1, 3',
\* whitespace and the section name.
SectionPatternFound(c, section) ==
    \E line \in c.section_lines :
        line.prefix = "#1, 3" /\ line.name = section

\* found_sections, by the indices of the names found.
found_sections(c) ==
    { k \in 1..Len(required_sections) :
        SectionPatternFound(c, required_sections[k]) }

\* int((len(found_sections) / len(required_sections)) * 10), 8 names
section_score(found) == (found * 10) \div Len(required_sections)

\* str.upper() of the bracketed tokens tried.
Upper(token) ==
    CASE token = "tbd" -> "TBD"
      [] token = "todo" -> "TODO"
      [] token = "tbc" -> "TBC"
      [] OTHER -> token

\* r'\[(?:TBD|TODO|FIXME|XXX|PLACEHOLDER)\]' with re.IGNORECASE
PlaceholderVocabulary == {"TBD", "TODO", "FIXME", "XXX", "PLACEHOLDER"}

\* len(re.findall(<placeholder pattern>, self.content, re.IGNORECASE))
count_placeholders(c) ==
    Cardinality({ k \in 1..Len(c.bracketed) :
                    Upper(c.bracketed[k]) \in PlaceholderVocabulary })

req_score_uncapped(func_reqs, nfr_reqs) == (func_reqs + nfr_reqs) \div 2

req_score(func_reqs, nfr_reqs) == Min(8, (func_reqs + nfr_reqs) \div 2)

placeholder_score(placeholders) == Max(0, 3 - placeholders)

ref_score(internal_links) == Min(4, internal_links \div 3)

Suggest(cond, text) == IF cond THEN <<text>> ELSE <<>>

score_completeness(c) ==
    [ name |-> "Completeness",
      score |-> section_score(Cardinality(found_sections(c))) + req_score(c.func_reqs, c.nfr_reqs)
                + placeholder_score(count_placeholders(c))
                + ref_score(c.internal_links),
      max_score |-> MaxDimensionScore,
      details |-> [ core_sections |-> section_score(Cardinality(found_sections(c))),
                    requirements |-> req_score(c.func_reqs, c.nfr_reqs),
                    placeholders |-> placeholder_score(count_placeholders(c)),
                    cross_references |-> ref_score(c.internal_links) ],
      suggestions |->
           Suggest(Cardinality(found_sections(c)) < Len(required_sections),
                   "Add missing sections")
        \o Suggest(c.func_reqs < 5, "Add more functional requirements (aim for 5+)")
        \o Suggest(c.nfr_reqs < 4, "Add more non-functional requirements (aim for 4+)")
        \o Suggest(count_placeholders(c) > 0, "Replace placeholder(s) with actual content")
        \o Suggest(c.internal_links < 10,
                   "Add more internal cross-references between sections") ]

\* ---- _score_clarity

precision_score(quantified) == Min(8, quantified \div 3)

\* The loop over headings: prev_level starts at 0; the first heading more
\* than one level deeper than the one before it clears proper_hierarchy.
RECURSIVE hierarchy_loop(_, _, _)
hierarchy_loop(headings, k, prev_level) ==
    IF k > Len(headings) THEN TRUE
    ELSE IF headings[k] > prev_level + 1 THEN FALSE
    ELSE hierarchy_loop(headings, k + 1, headings[k])

proper_hierarchy(headings) == hierarchy_loop(headings, 1, 0)

structure_score(headings) == IF proper_hierarchy(headings) THEN 6 ELSE 3

\* score += 7  # Base score
consistency_score == 7

visual_score(diagrams, tables) == Min(4, (diagrams * 2) + (tables \div 5))

score_clarity(c) ==
    [ name |-> "Clarity",
      score |-> precision_score(c.quantified) + structure_score(c.headings)
                + consistency_score + visual_score(c.diagrams, c.tables),
      max_score |-> MaxDimensionScore,
      details |-> [ language_precision |-> precision_score(c.quantified),
                    structure_flow |-> structure_score(c.headings),
                    consistency |-> consistency_score,
                    visual_aids |-> visual_score(c.diagrams, c.tables) ],
      suggestions |->
           Suggest(c.quantified < 20, "Add more specific, quantified metrics")
        \o Suggest(~proper_hierarchy(c.headings),
                   "Fix heading hierarchy - don't skip levels")
        \o Suggest(c.diagrams = 0, "Add architecture or flow diagrams")
        \o Suggest(c.tables < 10, "Use more tables for structured data") ]

\* ---- _score_implementability

feasibility_score(tech_mentions, justified_choices) ==
    Min(10, (tech_mentions * 2) + (justified_choices \div 3))

resource_score(has_timeline, has_team, has_budget) ==
    (IF has_timeline THEN 2 ELSE 0) + (IF has_team THEN 2 ELSE 0)
    + (IF has_budget THEN 2 ELSE 0)

dep_score(dep_mentions) == Min(5, dep_mentions \div 4)

risk_score(risk_mentions) == Min(4, risk_mentions \div 3)

score_implementability(c) ==
    [ name |-> "Implementability",
      score |-> feasibility_score(c.tech_mentions, c.justified_choices)
                + resource_score(c.has_timeline, c.has_team, c.has_budget)
                + dep_score(c.dep_mentions) + risk_score(c.risk_mentions),
      max_score |-> MaxDimensionScore,
      details |-> [ technical_feasibility |->
                        feasibility_score(c.tech_mentions, c.justified_choices),
                    resources |->
                        resource_score(c.has_timeline, c.has_team, c.has_budget),
                    dependencies |-> dep_score(c.dep_mentions),
                    risk_mitigation |-> risk_score(c.risk_mentions) ],
      suggestions |->
           Suggest(c.tech_mentions < 3, "Specify versions for technologies")
        \o Suggest(c.justified_choices < 10,
                   "Add justifications for technical choices")
        \o Suggest(~c.has_timeline, "Add implementation timeline")
        \o Suggest(~c.has_team, "Specify team composition and skills")
        \o Suggest(~c.has_budget, "Include budget estimates")
        \o Suggest(c.dep_mentions < 10, "Better document external dependencies")
        \o Suggest(c.risk_mentions < 10,
                   "Add more risk analysis and mitigation strategies") ]

\* ---- _score_testability

measurable_score(measurable, thresholds) ==
    Min(10, (measurable \div 5) + (thresholds \div 2))

scenario_score(scenarios) == Min(8, scenarios)

criteria_score(criteria) == Min(3, criteria)

metrics_score(metrics) == Min(4, metrics \div 3)

score_testability(c) ==
    [ name |-> "Testability",
      score |-> measurable_score(c.measurable, c.thresholds)
                + scenario_score(c.scenarios) + criteria_score(c.criteria)
                + metrics_score(c.metrics),
      max_score |-> MaxDimensionScore,
      details |-> [ measurable_requirements |->
                        measurable_score(c.measurable, c.thresholds),
                    test_scenarios |-> scenario_score(c.scenarios),
                    acceptance_criteria |-> criteria_score(c.criteria),
                    quality_metrics |-> metrics_score(c.metrics) ],
      suggestions |->
           Suggest(c.measurable < 20,
                   "Make requirements more specific with 'shall/must' language")
        \o Suggest(c.thresholds < 10, "Add more quantifiable thresholds")
        \o Suggest(c.scenarios < 5,
                   "Add more test scenarios or acceptance criteria")
        \o Suggest(c.criteria < 3,
                   "Define acceptance criteria for each major feature")
        \o Suggest(c.metrics < 10,
                   "Define more quality metrics and how to measure them") ]

\* ---- execute

\* self.args.dimensions or [the four dimensions]
dimensions_to_score(dims) == IF dims = <<>> THEN AllDimensions ELSE dims

score_dimension(dimension, c) ==
    CASE dimension = "completeness"     -> score_completeness(c)
      [] dimension = "clarity"          -> score_clarity(c)
      [] dimension = "implementability" -> score_implementability(c)
      [] dimension = "testability"      -> score_testability(c)

\* The for loop of execute: one DimensionScore per entry, in order.
dimension_scores_of(dims, c) ==
    [k \in 1..Len(dimensions_to_score(dims)) |->
        score_dimension(dimensions_to_score(dims)[k], c)]

\* sum(d.score for d in dimension_scores), sum(d.max_score for ...)
RECURSIVE sum_field(_, _, _)
sum_field(scores, field, k) ==
    IF k > Len(scores) THEN 0
    ELSE scores[k][field] + sum_field(scores, field, k + 1)

\* percentage >= threshold, with percentage = total / max * 100 when max > 0
\* and 0 otherwise.  The quotient is exact enough in floating point that the
\* comparison agrees with the one over the integers for every total <= max.
percentage_at_least_strict(total, max, threshold) ==
    IF max > 0 THEN total * 100 > threshold * max ELSE 0 > threshold

percentage_at_least(total, max, threshold) ==
    IF max > 0 THEN total * 100 >= threshold * max ELSE 0 >= threshold

\* execute: "Determine status"
status_of(total, max) ==
    IF percentage_at_least(total, max, ThresholdGood)
    THEN [status |-> "READY FOR REVIEW", risk_level |-> "Low"]
    ELSE IF percentage_at_least(total, max, ThresholdAcceptable)
    THEN [status |-> "NEEDS IMPROVEMENT", risk_level |-> "Medium"]
    ELSE [status |-> "REQUIRES SIGNIFICANT WORK", risk_level |-> "High"]

quality_report(dims, c) ==
    LET scores == dimension_scores_of(dims, c)
        total == sum_field(scores, "score", 1)
        max == sum_field(scores, "max_score", 1)
    IN [ total_score |-> total,
         max_score |-> max,
         dimensions |-> scores,
         status |-> status_of(total, max).status,
         risk_level |-> status_of(total, max).risk_level ]

InitScorer ==
    /\ pc = "execute"
    /\ exit_code = NoExit
    /\ spec_exists \in BOOLEAN
    /\ dimensions \in DimensionLists
    /\ strict \in BOOLEAN
    /\ content \in Documents
    /\ report = NoReport
    /\ IdleOrch
    /\ IdleStruct
    /\ IdleTrace
    /\ IdleAlign
    /\ IdleLists
    /\ IdleLinks
    /\ IdlePlan

\* execute, when the spec file is missing: return 1.
execute_not_found ==
    /\ pc = "execute"
    /\ ~spec_exists
    /\ pc' = "exited"
    /\ exit_code' = 1
    /\ UNCHANGED <<spec_exists, scorerVars, notScorer>>

\* execute: score the requested dimensions, create and output the report,
\* return 1 in strict mode below THRESHOLDS['good'] and 0 otherwise.
execute_score ==
    /\ pc = "execute"
    /\ spec_exists
    /\ report' = quality_report(dimensions, content)
    /\ exit_code' =
         IF strict /\ ~percentage_at_least(report'.total_score,
                                           report'.max_score, ThresholdGood)
         THEN 1 ELSE 0
    /\ pc' = "exited"
    /\ UNCHANGED <<spec_exists, dimensions, strict, content, notScorer>>

NextScorer ==
    \/ execute_not_found
    \/ execute_score

SpecScorer == InitScorer /\ [][NextScorer]_vars


(***************************************************************************)
(*               Properties of score-spec-quality.py                       *)
(***************************************************************************)

\* The scorer created a report and ended.
Scored == pc = "exited" /\ report # NoReport

Requested == IF dimensions = <<>> THEN AllDimensions ELSE dimensions

DimensionTitle(dimension) ==
    CASE dimension = "completeness"     -> "Completeness"
      [] dimension = "clarity"          -> "Clarity"
      [] dimension = "implementability" -> "Implementability"
      [] dimension = "testability"      -> "Testability"

\* The sum of field f over the first n entries of a sequence of records.
RECURSIVE SumFirst(_, _, _)
SumFirst(records, f, n) ==
    IF n = 0 THEN 0 ELSE SumFirst(records, f, n - 1) + records[n][f]

\* C1: for every document and every requested list of dimensions, the report
\* holds one DimensionScore per requested dimension, each with
\* 0 <= score <= max_score = 25; total_score is the sum of their scores and
\* max_score the sum of their max_scores.
C1_ScoresBoundedAndTotalsAreSums ==
    Scored =>
        /\ Len(report.dimensions) = Len(Requested)
        /\ \A k \in 1..Len(Requested) :
              /\ report.dimensions[k].name = DimensionTitle(Requested[k])
              /\ report.dimensions[k].max_score = 25
              /\ 0 <= report.dimensions[k].score
              /\ report.dimensions[k].score <= report.dimensions[k].max_score
        /\ report.total_score
             = SumFirst(report.dimensions, "score", Len(Requested))
        /\ report.max_score = 25 * Len(Requested)

\* C1 witness: a proper subset was requested and scored, one of its
\* dimensions reaching its maximum and the total lying strictly between 0
\* and the maximum.
C1_Witness ==
    /\ Scored
    /\ Len(dimensions) = 2
    /\ dimensions[1] # dimensions[2]
    /\ report.dimensions[1].score = 25
    /\ report.dimensions[2].score < 25
    /\ report.total_score = report.dimensions[1].score + report.dimensions[2].score
    /\ report.max_score = 50

\* C5: status and risk level follow from p = 100 * total_score / max_score
\* alone: p >= 90 is ready/Low, 85 <= p < 90 is needs improvement/Medium,
\* p < 85 is requires significant work/High, also for a subset of dimensions.
C5_StatusFollowsPercentage ==
    Scored =>
        /\ report.max_score > 0
        /\ (100 * report.total_score >= 90 * report.max_score
              => /\ report.status = "READY FOR REVIEW"
                 /\ report.risk_level = "Low")
        /\ ( ( /\ 100 * report.total_score >= 85 * report.max_score
               /\ 100 * report.total_score < 90 * report.max_score )
              => /\ report.status = "NEEDS IMPROVEMENT"
                 /\ report.risk_level = "Medium")
        /\ (100 * report.total_score < 85 * report.max_score
              => /\ report.status = "REQUIRES SIGNIFICANT WORK"
                 /\ report.risk_level = "High")

\* C5 witness: only a subset was scored and its percentage is exactly 90,
\* the lowest that is ready/Low.
C5_Witness ==
    /\ Scored
    /\ Len(dimensions) = 2
    /\ 100 * report.total_score = 90 * report.max_score
    /\ report.risk_level = "Low"

\* Reachability probes of the other two bands, for a subset and for the four
\* dimensions.
C5_MediumReached ==
    Scored /\ Len(dimensions) = 1 /\ report.risk_level = "Medium"

C5_HighBelowBoundaryReached ==
    /\ Scored
    /\ dimensions = <<>>
    /\ report.total_score = 84
    /\ report.risk_level = "High"


(***************************************************************************)
(*               validation/validate-spec-structure.py                     *)
(***************************************************************************)

\* Bounds of the inputs: the number of lines of a free-form document and the
\* number of files in the modular spec directory.
MaxLines == 3
MaxModularFiles == 1

\* A line of the document: its leading # characters, the character after
\* them ("" when the body follows directly or the line has no #) and the rest
\* of the line, stripped.
Heading(n, title) == [hashes |-> n, sep |-> " ", body |-> title]
TextLine(body) == [hashes |-> 0, sep |-> "", body |-> body]
BlankLine == TextLine("")

\* line.startswith("## "), line.startswith("### ")
StartsWithHashesAndSpace(line, n) == line.hashes = n /\ line.sep = " "

\* line.startswith("#")
StartsWithHash(line) == line.hashes >= 1

\* line.strip() == ""
IsBlank(line) == line.hashes = 0 /\ line.body = ""

\* re.match(r'^(#{1,6})\s+(.+)$', line)
HeadingMatch(line) ==
    /\ line.hashes \in 1..MaxLevel
    /\ line.sep \in {" ", "\t"}
    /\ line.body # ""

\* REQUIRED_SECTIONS, in the order of the dict.
REQUIRED_SECTIONS ==
    << [section |-> "Executive Summary", subsections |-> <<>>],
       [section |-> "Stakeholders", subsections |-> <<>>],
       [section |-> "Requirements",
        subsections |-> <<"Functional Requirements",
                          "Non-Functional Requirements">>],
       [section |-> "System Architecture",
        subsections |-> <<"High-Level Architecture", "Technology Stack">>],
       [section |-> "Risks and Mitigations", subsections |-> <<>>],
       [section |-> "Implementation Approach",
        subsections |-> <<"Development Methodology", "Quality Standards">>],
       [section |-> "Success Metrics",
        subsections |-> <<"Technical Metrics", "Business Metrics">>],
       [section |-> "Constraints and Assumptions",
        subsections |-> <<"Constraints", "Assumptions">>] >>

\* The bodies of the text lines tried, with what the validator's patterns
\* find in each.
TablePipeBodies == {"| a | b |", "|---|---|"}

\* line.strip().startswith("|")
StartsWithPipe(line) == line.hashes = 0 /\ line.body \in TablePipeBodies

\* "|" in line
ContainsPipe(line) == line.body \in TablePipeBodies

\* re.match(r'^\|[\s\-:\|]+\|$', next_line)
IsSeparatorRow(line) == line.hashes = 0 /\ line.body = "|---|---|"

\* The PLACEHOLDERS patterns (1..4) that match in a line, each once:
\* "[TODO]" is found by the first, "TODO:" by the second, and "[XXX]" by the
\* first and the third.
PlaceholderPatterns(line) ==
    CASE line.body = "[TODO] decide" -> {1}
      [] line.body = "TODO: decide"  -> {2}
      [] line.body = "[XXX]"         -> {1, 3}
      [] OTHER                       -> {}

\* The generic_patterns (1..5) that match in a line.
GenericPatterns(line) ==
    IF line.body = "Lorem ipsum" THEN {1} ELSE {}

\* re.finditer(r'\[([^\]]+)\]\(#([^)]+)\)', line): the anchors linked to.
LinkAnchors(line) ==
    CASE line.body = "[see](#executive-summary)" -> <<"executive-summary">>
      [] line.body = "[see](#no-such-heading)"   -> <<"no-such-heading">>
      [] OTHER                                   -> <<>>

\* _heading_to_anchor: emphasis marks removed, lower case, characters other
\* than word characters, spaces and hyphens dropped, spaces to hyphens.
heading_to_anchor(heading) ==
    CASE heading = "Executive Summary"           -> "executive-summary"
      [] heading = "Stakeholders"                -> "stakeholders"
      [] heading = "Requirements"                -> "requirements"
      [] heading = "Functional Requirements"     -> "functional-requirements"
      [] heading = "Non-Functional Requirements" -> "non-functional-requirements"
      [] heading = "System Architecture"         -> "system-architecture"
      [] heading = "High-Level Architecture"     -> "high-level-architecture"
      [] heading = "Technology Stack"            -> "technology-stack"
      [] heading = "Risks and Mitigations"       -> "risks-and-mitigations"
      [] heading = "Implementation Approach"     -> "implementation-approach"
      [] heading = "Development Methodology"     -> "development-methodology"
      [] heading = "Quality Standards"           -> "quality-standards"
      [] heading = "Success Metrics"             -> "success-metrics"
      [] heading = "Technical Metrics"           -> "technical-metrics"
      [] heading = "Business Metrics"            -> "business-metrics"
      [] heading = "Constraints and Assumptions" -> "constraints-and-assumptions"
      [] heading = "Constraints"                 -> "constraints"
      [] heading = "Assumptions"                 -> "assumptions"
      [] heading = "Overview"                    -> "overview"
      [] heading = "Details"                     -> "details"
      [] heading = "tag"                         -> "tag"

\* ValidationIssue; "about" is the name the message carries (a section, a
\* subsection, an anchor, the text of a line), line_number 0 stands for None.
Issue(level, category, message, about, line_number) ==
    [level |-> level, category |-> category, message |-> message,
     about |-> about, line_number |-> line_number]

\* The concatenation F(1) \o ... \o F(n): a for loop that extends a list.
RECURSIVE ForEachFrom(_, _, _)
ForEachFrom(F(_), k, n) ==
    IF k > n THEN <<>> ELSE F(k) \o ForEachFrom(F, k + 1, n)

ForEach(F(_), n) == ForEachFrom(F, 1, n)

SeqContains(seq, x) == \E k \in 1..Len(seq) : seq[k] = x

\* _check_required_sections: the loop over the lines that fills the headings
\* dict, from line k on (current_h2 "" stands for None; both are false in
\* the elif).
RECURSIVE extract_headings(_, _, _, _)
extract_headings(doc, k, headings, current_h2) ==
    IF k > Len(doc) THEN headings
    ELSE IF StartsWithHashesAndSpace(doc[k], 2)
    THEN extract_headings(doc, k + 1, Put(headings, doc[k].body, <<>>),
                          doc[k].body)
    ELSE IF StartsWithHashesAndSpace(doc[k], 3) /\ current_h2 # ""
    THEN extract_headings(doc, k + 1,
                          Put(headings, current_h2,
                              Append(headings[current_h2], doc[k].body)),
                          current_h2)
    ELSE extract_headings(doc, k + 1, headings, current_h2)

ExtractHeadings(doc) == extract_headings(doc, 1, EmptyDict, "")

\* _check_required_sections: the test 'section not in headings'.
SectionMissingNever(headings, section) == FALSE

SectionMissing(headings, section) == section \notin DOMAIN headings

\* dict.get(key, default)
Get(dict, key, default) == IF key \in DOMAIN dict THEN dict[key] ELSE default

check_required_sections(doc) ==
    LET headings == ExtractHeadings(doc)
        OfSection(k) ==
          LET section == REQUIRED_SECTIONS[k].section
              subsections == REQUIRED_SECTIONS[k].subsections
              OfSubsection(j) ==
                IF ~SeqContains(Get(headings, section, <<>>), subsections[j])
                THEN <<Issue("WARNING", "Structure", "Missing subsection",
                             subsections[j], 0)>>
                ELSE <<>>
          IN IF SectionMissing(headings, section)
             THEN <<Issue("ERROR", "Structure", "Missing required section",
                          section, 0)>>
             ELSE ForEach(OfSubsection, Len(subsections))
    IN ForEach(OfSection, Len(REQUIRED_SECTIONS))

\* _check_markdown_structure: the heading hierarchy loop, from line k on.
RECURSIVE heading_hierarchy_loop(_, _, _)
heading_hierarchy_loop(doc, k, prev_level) ==
    IF k > Len(doc) THEN <<>>
    ELSE IF HeadingMatch(doc[k])
    THEN (IF doc[k].hashes > prev_level + 1 /\ prev_level > 0
          THEN <<Issue("WARNING", "Markdown", "Heading level skipped",
                       doc[k].body, k)>>
          ELSE <<>>)
         \o heading_hierarchy_loop(doc, k + 1, doc[k].hashes)
    ELSE heading_hierarchy_loop(doc, k + 1, prev_level)

check_heading_hierarchy(doc) == heading_hierarchy_loop(doc, 1, 0)

\* _check_markdown_structure: the empty section loop, over all lines but the
\* last (k is the 1-based line number, i + 1).
check_empty_sections(doc) ==
    LET OfLine(k) ==
          IF /\ k < Len(doc)
             /\ StartsWithHash(doc[k])
             /\ IsBlank(doc[k + 1])
             /\ (k + 2 > Len(doc) \/ StartsWithHash(doc[k + 2]))
          THEN <<Issue("WARNING", "Content", "Empty section", doc[k].body, k)>>
          ELSE <<>>
    IN ForEach(OfLine, Len(doc))

\* _check_markdown_structure: the table loop, from line k on.
RECURSIVE table_loop(_, _, _)
table_loop(doc, k, in_table) ==
    IF k > Len(doc) THEN <<>>
    ELSE IF ContainsPipe(doc[k]) /\ ~StartsWithPipe(doc[k])
    THEN table_loop(doc, k + 1, in_table)
    ELSE IF StartsWithPipe(doc[k])
    THEN (IF ~in_table /\ k < Len(doc) /\ ~IsSeparatorRow(doc[k + 1])
          THEN <<Issue("WARNING", "Markdown", "Table missing separator line",
                       "", k)>>
          ELSE <<>>)
         \o table_loop(doc, k + 1, TRUE)
    ELSE table_loop(doc, k + 1, FALSE)

check_tables(doc) == table_loop(doc, 1, FALSE)

check_markdown_structure(doc) ==
    check_heading_hierarchy(doc) \o check_empty_sections(doc)
    \o check_tables(doc)

\* _check_placeholders: per pattern, per line, one WARNING for each match;
\* then per generic pattern, per line.
check_placeholders(doc) ==
    LET OfPattern(p) ==
          LET OfLine(k) ==
                IF p \in PlaceholderPatterns(doc[k])
                THEN <<Issue("WARNING", "Placeholder", "Found placeholder", doc[k].body, k)>>
                ELSE <<>>
          IN ForEach(OfLine, Len(doc))
        OfGeneric(p) ==
          LET OfLine(k) ==
                IF p \in GenericPatterns(doc[k])
                THEN <<Issue("WARNING", "Placeholder",
                             "Found generic placeholder text", "", k)>>
                ELSE <<>>
          IN ForEach(OfLine, Len(doc))
    IN ForEach(OfPattern, 4) \o ForEach(OfGeneric, 5)

\* _check_internal_links
check_internal_links(doc) ==
    LET anchors == { heading_to_anchor(doc[k].body) :
                       k \in { j \in 1..Len(doc) : HeadingMatch(doc[j]) } }
        OfLine(k) ==
          LET OfLink(j) ==
                IF LinkAnchors(doc[k])[j] \notin anchors
                THEN <<Issue("ERROR", "Link", "Broken internal link",
                             LinkAnchors(doc[k])[j], k)>>
                ELSE <<>>
          IN ForEach(OfLink, Len(LinkAnchors(doc[k])))
    IN ForEach(OfLine, Len(doc))

\* A file of the modular spec directory: whether its stripped content is
\* shorter than 100 characters, and how many of PLACEHOLDERS[:2] it matches.
ModularFiles ==
    { [short |-> FALSE, placeholder_patterns |-> 0],
      [short |-> TRUE,  placeholder_patterns |-> 0],
      [short |-> FALSE, placeholder_patterns |-> 2] }

SpecDirs ==
    {NoDirectory}
    \cup { [exists |-> TRUE, files |-> fs] :
             fs \in SeqsUpTo(ModularFiles, MaxModularFiles) }

\* _check_modular_specs
check_modular_specs(dir) ==
    LET OfFile(k) ==
          LET OfPattern(p) ==
                IF p <= dir.files[k].placeholder_patterns
                THEN <<Issue("WARNING", "Modular", "Placeholder found in file",
                             "", 0)>>
                ELSE <<>>
          IN (IF dir.files[k].short
              THEN <<Issue("WARNING", "Modular", "Modular spec seems too short",
                           "", 0)>>
              ELSE <<>>)
             \o ForEach(OfPattern, 2)
    IN IF Len(dir.files) = 0
       THEN <<Issue("INFO", "Modular", "No modular spec files found", "", 0)>>
       ELSE ForEach(OfFile, Len(dir.files))

\* execute: the issues collected by the checks, in the order they run.
collect_issues(doc, links, dir) ==
    check_required_sections(doc)
    \o check_markdown_structure(doc)
    \o check_placeholders(doc)
    \o (IF links THEN check_internal_links(doc) ELSE <<>>)
    \o (IF dir.exists THEN check_modular_specs(dir) ELSE <<>>)

HasLevel(found, level) == \E k \in 1..Len(found) : found[k].level = level

\* execute: "Determine exit code" (and the same test in _report_results).
structure_fails_on_errors_only(found, strict_mode) == HasLevel(found, "ERROR")

structure_fails(found, strict_mode) ==
    HasLevel(found, "ERROR") \/ (strict_mode /\ HasLevel(found, "WARNING"))

\* ---- the documents validated

\* A document that holds the required sections numbered in present, each
\* with a line of text, and of its required subsections all ("all"), only
\* the first ("first") or none ("none").
SectionBlock(k, subs) ==
    LET wanted == REQUIRED_SECTIONS[k].subsections
        kept == IF subs = "all" THEN Len(wanted)
                ELSE IF subs = "first" THEN Min(1, Len(wanted)) ELSE 0
        OfSubsection(j) ==
          IF j <= kept THEN <<Heading(3, wanted[j]), TextLine("Some content")>>
          ELSE <<>>
    IN <<Heading(2, REQUIRED_SECTIONS[k].section), TextLine("Some content")>>
       \o ForEach(OfSubsection, Len(wanted))

SectionDocument(present, subs) ==
    LET OfSection(k) == IF k \in present THEN SectionBlock(k, subs) ELSE <<>>
    IN <<Heading(1, "Overview"), TextLine("Some content")>>
       \o ForEach(OfSection, Len(REQUIRED_SECTIONS))

CompleteDocument == SectionDocument(1..Len(REQUIRED_SECTIONS), "all")

\* The lines of the free-form documents.
FreeLines ==
    { Heading(1, "Overview"), Heading(2, "Executive Summary"),
      Heading(3, "Functional Requirements"), Heading(4, "Details"),
      [hashes |-> 2, sep |-> "\t", body |-> "Stakeholders"],
      [hashes |-> 1, sep |-> "", body |-> "tag"],
      BlankLine, TextLine("Some content"), TextLine("[TODO] decide") }

\* Lines appended to the complete document.
ExtraLines ==
    { TextLine("TODO: decide"), TextLine("[XXX]"), TextLine("Lorem ipsum"),
      TextLine("[see](#executive-summary)"), TextLine("[see](#no-such-heading)"),
      TextLine("| a | b |"), TextLine("|---|---|"), Heading(4, "Details"),
      BlankLine }

StructDocuments ==
    { SectionDocument(present, subs) :
        present \in SUBSET (1..Len(REQUIRED_SECTIONS)),
        subs \in {"all", "none"} }
    \cup { SectionDocument(1..Len(REQUIRED_SECTIONS), "first") }
    \cup { CompleteDocument \o extra : extra \in SeqsUpTo(ExtraLines, 2) }
    \cup SeqsUpTo(FreeLines, MaxLines)

\* What the validator is run on: every document without a modular spec
\* directory, and the complete document, the empty document and the document
\* with all sections but no subsection with each directory.
StructInputs ==
    { [lines |-> doc, spec_dir |-> NoDirectory] : doc \in StructDocuments }
    \cup { [lines |-> doc, spec_dir |-> dir] :
             doc \in { CompleteDocument, <<>>,
                       SectionDocument(1..Len(REQUIRED_SECTIONS), "none") },
             dir \in SpecDirs }

InitStructure ==
    /\ pc = "execute"
    /\ exit_code = NoExit
    /\ spec_exists \in BOOLEAN
    /\ strict \in BOOLEAN
    /\ check_links \in BOOLEAN
    /\ \E input \in StructInputs :
          /\ lines = input.lines
          /\ spec_dir = input.spec_dir
    /\ issues = <<>>
    /\ verdict = "none"
    /\ IdleOrch
    /\ IdleScorer
    /\ IdleTrace
    /\ IdleAlign
    /\ IdleLists
    /\ IdleLinks
    /\ IdlePlan

\* execute, when the spec file is missing: return 1.
structure_not_found ==
    /\ pc = "execute"
    /\ ~spec_exists
    /\ pc' = "exited"
    /\ exit_code' = 1
    /\ UNCHANGED <<spec_exists, strict, structVars, notStruct>>

\* execute: run the checks, report, return 1 or 0.
structure_validate ==
    /\ pc = "execute"
    /\ spec_exists
    /\ issues' = collect_issues(lines, check_links, spec_dir)
    /\ verdict' = IF structure_fails(issues', strict)
                  THEN "Spec structure validation FAILED"
                  ELSE "Spec structure validation PASSED"
    /\ exit_code' = IF structure_fails(issues', strict) THEN 1 ELSE 0
    /\ pc' = "exited"
    /\ UNCHANGED <<spec_exists, strict, lines, check_links, spec_dir, notStruct>>

NextStructure ==
    \/ structure_not_found
    \/ structure_validate

SpecStructure == InitStructure /\ [][NextStructure]_vars


(***************************************************************************)
(*             Properties of validate-spec-structure.py                    *)
(***************************************************************************)

\* The validator read the document, collected the issues and ended.
Validated == pc = "exited" /\ verdict # "none"

RequiredNames ==
    { REQUIRED_SECTIONS[k].section : k \in 1..Len(REQUIRED_SECTIONS) }

\* The document has a level-2 heading line with exactly this title.
HasLevel2Heading(doc, title) ==
    \E k \in 1..Len(doc) :
        HeadingMatch(doc[k]) /\ doc[k].hashes = 2 /\ doc[k].body = title

IssuesWith(level) == { n \in 1..Len(issues) : issues[n].level = level }

\* C3: for each required section name without a level-2 heading of exactly
\* that title, the validator emits exactly one ERROR naming the section, and
\* its exit code is non-zero with and without strict mode.
C3_MissingSectionIsOneErrorAndFails ==
    Validated =>
        \A name \in RequiredNames :
            ~HasLevel2Heading(lines, name)
            => /\ Cardinality({ n \in IssuesWith("ERROR") :
                                  issues[n].about = name }) = 1
               /\ \E n \in IssuesWith("ERROR") :
                     /\ issues[n].about = name
                     /\ issues[n].message = "Missing required section"
               /\ exit_code # 0

\* C3 witness: without strict mode, a document that has some required
\* sections and lacks others was validated and failed.
C3_Witness ==
    /\ Validated
    /\ ~strict
    /\ HasLevel2Heading(lines, "Executive Summary")
    /\ HasLevel2Heading(lines, "Requirements")
    /\ ~HasLevel2Heading(lines, "Stakeholders")
    /\ ~HasLevel2Heading(lines, "Success Metrics")
    /\ Cardinality(IssuesWith("ERROR")) = 2
    /\ exit_code = 1

\* C4: the validator fails (exit code 1) exactly when the issue list holds an
\* ERROR, or strict mode is selected and it holds a WARNING; otherwise it
\* passes (exit code 0), whatever the number of INFO issues and, without
\* strict mode, of WARNING issues.
C4_FailsOnErrorOrStrictWarning ==
    Validated =>
        /\ exit_code \in {0, 1}
        /\ exit_code = 1
             <=> \/ Cardinality(IssuesWith("ERROR")) >= 1
                 \/ strict /\ Cardinality(IssuesWith("WARNING")) >= 1
        /\ verdict = "Spec structure validation FAILED" <=> exit_code = 1

\* C4 witness: without strict mode, a list with several WARNINGs and an INFO
\* but no ERROR passes.
C4_Witness ==
    /\ Validated
    /\ ~strict
    /\ Cardinality(IssuesWith("WARNING")) >= 2
    /\ Cardinality(IssuesWith("INFO")) >= 1
    /\ Cardinality(IssuesWith("ERROR")) = 0
    /\ exit_code = 0

\* Reachability probe: in strict mode a WARNING without any ERROR fails.
C4_StrictWarningFails ==
    /\ Validated
    /\ strict
    /\ Cardinality(IssuesWith("WARNING")) >= 1
    /\ Cardinality(IssuesWith("ERROR")) = 0
    /\ exit_code = 1


(***************************************************************************)
(*             validate-requirements-traceability.py                       *)
(***************************************************************************)

\* The largest number of requirement headings in a document tried.
MaxReqs == 2

\* A requirement identifier, "FR-<num>" or "NFR-<num>".
ReqId(type, num) == [type |-> type, num |-> num]
NoId == ReqId("none", 0)

\* The decimal digits of a are the first digits of b.
RECURSIVE IsDigitPrefix(_, _)
IsDigitPrefix(a, b) == a = b \/ (b >= 10 /\ IsDigitPrefix(a, b \div 10))

\* Python's  a in b  for the texts of two identifiers: "FR-1" occurs in
\* "FR-1", "FR-10", "NFR-1" and "NFR-10"; "NFR-1" does not occur in "FR-1".
IdOccursIn(a, b) ==
    /\ a.type = b.type \/ (a.type = "FR" /\ b.type = "NFR")
    /\ IsDigitPrefix(a.num, b.num)

\* A line of the spec file: its leading # characters, what the line is
\* ("requirement": a heading '<id>: <summary>'; "text": a line of prose; any
\* other title: a heading with that title), and the identifiers written in it.
ReqHeading(n, id, summary) ==
    [hashes |-> n, title |-> "requirement", id |-> id, summary |-> summary,
     mentions |-> {id}]
SectionHeading(n, title) ==
    [hashes |-> n, title |-> title, id |-> NoId, summary |-> "",
     mentions |-> {}]
Prose(ids) ==
    [hashes |-> 0, title |-> "text", id |-> NoId, summary |-> "",
     mentions |-> ids]

\* req_id in <text of the lines from..to>
OccursInLines(id, doc, from, to) ==
    \E k \in from..to : \E written \in doc[k].mentions : IdOccursIn(id, written)

\* The (.+?)(?=^#{1,2}|\Z) of the section patterns and the (?=^#{1,4}|\Z) of
\* the requirement patterns: the text runs up to the next line that starts
\* with "#", or to the end; this is the last line of the run begun at line k.
RECURSIVE LastLineBeforeHash(_, _)
LastLineBeforeHash(doc, k) ==
    IF k = Len(doc) \/ doc[k + 1].hashes >= 1 THEN k
    ELSE LastLineBeforeHash(doc, k + 1)

\* re.search of a pattern that one line can match: the first such line, 0
\* when there is none.
RECURSIVE FirstLine(_, _, _)
FirstLine(doc, titles, k) ==
    IF k > Len(doc) THEN 0
    ELSE IF doc[k].hashes >= 1 /\ doc[k].title \in titles THEN k
    ELSE FirstLine(doc, titles, k + 1)

\* The headings r'#{1,2}\s+System Architecture' and r'#{1,2}\s+Risk' are
\* found in: the patterns are not anchored, so the last one or two of any
\* number of # characters match.
ArchitectureTitles == {"System Architecture"}
RiskTitles == {"Risks and Mitigations", "Risk Register"}

\* r'^#{3,4}\s+(FR-\d+)[:\s]+(.+?)...' and the same with NFR.
RequirementMatch(line, type) ==
    /\ line.hashes \in 3..4
    /\ line.title = "requirement"
    /\ line.id.type = type

\* self.requirements[type][req_id] = value on a dict kept in insertion order.
SetItem(dict, value) ==
    IF \E k \in 1..Len(dict) : dict[k].id = value.id
    THEN LET k == CHOOSE k \in 1..Len(dict) : dict[k].id = value.id
         IN [dict EXCEPT ![k] = value]
    ELSE Append(dict, value)

\* _extract_requirements: the loop over re.finditer, from line k on.
RECURSIVE extract_loop(_, _, _, _)
extract_loop(doc, type, k, dict) ==
    IF k > Len(doc) THEN dict
    ELSE IF RequirementMatch(doc[k], type)
    THEN extract_loop(doc, type, k + 1,
                      SetItem(dict, [id |-> doc[k].id, text |-> doc[k].summary,
                                     traced |-> FALSE]))
    ELSE extract_loop(doc, type, k + 1, dict)

extract_requirements(doc) ==
    [functional     |-> extract_loop(doc, "FR", 1, <<>>),
     non_functional |-> extract_loop(doc, "NFR", 1, <<>>)]

\* The ids of a requirements dict, and of both dicts.
Keys(dict) == { dict[k].id : k \in 1..Len(dict) }
AllKeys(reqs) == Keys(reqs.functional) \cup Keys(reqs.non_functional)

\* req_data["text"].lower() for the summaries tried.
Lower(text) ==
    CASE text = "User login"        -> "user login"
      [] text = "Security audit"    -> "security audit"
      [] text = "integration tests" -> "integration tests"
      [] OTHER                      -> text

\* _find_risk_traces: high_risk_keywords, and those that occur in a lowered
\* summary.
high_risk_keywords == {"real-time", "performance", "security", "integration"}
KeywordsIn(lowered) ==
    CASE lowered = "security audit"    -> {"security"}
      [] lowered = "integration tests" -> {"integration"}
      [] OTHER                         -> {}

is_high_risk(text) == KeywordsIn(Lower(text)) \cap high_risk_keywords # {}

\* A message of self.errors or self.warnings and the requirement it names.
Message(text, id) == [message |-> text, id |-> id]

\* self.requirements[req_type][req_id]["traced"] = True for the ids found.
MarkTraced(dict, found) ==
    [k \in 1..Len(dict) |->
        IF dict[k].id \in found THEN [dict[k] EXCEPT !.traced = TRUE]
        ELSE dict[k]]

\* _find_architecture_traces: the requirements and traces it leaves.
find_architecture_traces(doc, reqs, tr) ==
    LET k == FirstLine(doc, ArchitectureTitles, 1)
        found == { id \in AllKeys(reqs) :
                     k # 0 /\ OccursInLines(id, doc, k, LastLineBeforeHash(doc, k)) }
    IN [requirements |->
          [functional     |-> MarkTraced(reqs.functional, found),
           non_functional |-> MarkTraced(reqs.non_functional, found)],
        traces |-> [tr EXCEPT !.to_architecture = @ \cup found]]

\* An acceptance-scenarios.md file: whether it exists, and its lines.
ScenarioFile(exists, file_lines) == [exists |-> exists, lines |-> file_lines]

\* _find_acceptance_traces: the content of the files of acceptance_files[k..]
\* that exist.
RECURSIVE read_existing(_, _)
read_existing(files, k) ==
    IF k > Len(files) THEN <<>>
    ELSE (IF files[k].exists THEN files[k].lines ELSE <<>>)
         \o read_existing(files, k + 1)

\* _find_acceptance_traces, had acceptance_files held the scenario files only.
all_content_of_scenarios(doc, files) == read_existing(files, 1)

\* _find_acceptance_traces: all_content, the spec file (which exists: it was
\* read before) followed by the acceptance-scenarios.md files that exist.
all_content(doc, files) == doc \o read_existing(files, 1)

\* _find_acceptance_traces, had it built a new traces dict for its result.
find_acceptance_traces_reassigning(doc, reqs, tr) ==
    [NoTraces EXCEPT !.to_acceptance =
        { id \in AllKeys(reqs) : OccursInLines(id, doc, 1, Len(doc)) }]

\* _find_acceptance_traces: the traces it leaves, doc being all_content.
find_acceptance_traces(doc, reqs, tr) ==
    [tr EXCEPT !.to_acceptance =
        @ \cup { id \in AllKeys(reqs) : OccursInLines(id, doc, 1, Len(doc)) }]

\* _find_risk_traces: the loop over one requirements dict, from entry k on.
RECURSIVE risk_loop(_, _, _, _, _)
risk_loop(doc, section, dict, k, acc) ==
    IF k > Len(dict) THEN acc
    ELSE IF is_high_risk(dict[k].text)
    THEN IF OccursInLines(dict[k].id, doc, section,
                          LastLineBeforeHash(doc, section))
         THEN risk_loop(doc, section, dict, k + 1,
                        [acc EXCEPT !.traces.to_risks = @ \cup {dict[k].id}])
         ELSE risk_loop(doc, section, dict, k + 1,
                        [acc EXCEPT !.warnings =
                           Append(@, Message("High-risk requirement not addressed in risk section",
                                             dict[k].id))])
    ELSE risk_loop(doc, section, dict, k + 1, acc)

\* _find_risk_traces: the traces and warnings it leaves.
find_risk_traces(doc, reqs, tr, warns) ==
    LET section == FirstLine(doc, RiskTitles, 1)
        start == [traces |-> tr, warnings |-> warns]
    IN IF section # 0
       THEN risk_loop(doc, section, reqs.non_functional, 1,
                      risk_loop(doc, section, reqs.functional, 1, start))
       ELSE start

\* _validate_coverage: the loop over the functional requirements and the
\* loop over the non-functional ones, from entry k on.
RECURSIVE functional_coverage(_, _, _, _)
functional_coverage(dict, tr, k, acc) ==
    IF k > Len(dict) THEN acc
    ELSE LET e == IF ~dict[k].traced
                  THEN Append(acc.errors,
                              Message("Functional requirement not traced to architecture",
                                      dict[k].id))
                  ELSE acc.errors
             w == IF dict[k].id \notin tr.to_acceptance
                  THEN Append(acc.warnings,
                              Message("Functional requirement lacks acceptance scenarios",
                                      dict[k].id))
                  ELSE acc.warnings
         IN functional_coverage(dict, tr, k + 1, [errors |-> e, warnings |-> w])

RECURSIVE non_functional_coverage(_, _, _)
non_functional_coverage(dict, k, acc) ==
    IF k > Len(dict) THEN acc
    ELSE non_functional_coverage(dict, k + 1,
           IF ~dict[k].traced
           THEN [acc EXCEPT !.warnings =
                   Append(@, Message("Non-functional requirement not explicitly traced",
                                     dict[k].id))]
           ELSE acc)

\* _validate_coverage, had it held non-functional requirements to the bar of
\* the functional ones.
validate_coverage_strict_nfr(reqs, tr, errs, warns) ==
    LET acc == functional_coverage(reqs.functional, tr, 1,
                                   [errors |-> errs, warnings |-> warns])
        nfr == functional_coverage(reqs.non_functional, tr, 1,
                                   [errors |-> <<>>, warnings |-> <<>>])
    IN [errors |-> acc.errors \o nfr.errors, warnings |-> acc.warnings]

\* _validate_coverage: the errors and warnings it leaves.
validate_coverage(reqs, tr, errs, warns) ==
    non_functional_coverage(reqs.non_functional, 1,
        functional_coverage(reqs.functional, tr, 1,
                            [errors |-> errs, warnings |-> warns]))

\* _report_results: the row of the traceability matrix for a requirement
\* ("yes" for the check mark, "no" for the cross).
MatrixRow(req_id, tr) ==
    [arch   |-> IF req_id \in tr.to_architecture THEN "yes" ELSE "no",
     accept |-> IF req_id \in tr.to_acceptance THEN "yes" ELSE "no",
     risk   |-> IF req_id \in tr.to_risks THEN "yes" ELSE "N/A"]

traceability_matrix(reqs, tr) ==
    [req_id \in AllKeys(reqs) |-> MatrixRow(req_id, tr)]

\* ---- the documents validated

FR1 == ReqId("FR", 1)
FR7 == ReqId("FR", 7)
FR10 == ReqId("FR", 10)
NFR1 == ReqId("NFR", 1)

\* The requirement headings tried; those of level 2 and 5 are not matched by
\* the requirement patterns.
ReqLines ==
    { ReqHeading(3, FR1, "User login"), ReqHeading(3, FR1, "Security audit"),
      ReqHeading(4, FR7, "integration tests"),
      ReqHeading(3, NFR1, "Security audit"), ReqHeading(4, NFR1, "User login"),
      ReqHeading(3, FR10, "User login"),
      ReqHeading(2, FR7, "Security audit"), ReqHeading(5, FR1, "User login") }

\* The identifiers a line of prose refers to.
MentionSets == { {}, {FR1}, {FR10}, {NFR1}, {FR7} }

\* A section with the title: absent, with a line of prose, or with a line of
\* prose and a level-3 subsection holding another.
SectionVariants(title) ==
    { <<>> }
    \cup { <<SectionHeading(2, title), Prose(m)>> : m \in MentionSets }
    \cup { <<SectionHeading(2, title), Prose({}),
             SectionHeading(3, "Details"), Prose(m)>> : m \in MentionSets \ {{}} }

\* .spec/acceptance-scenarios.md and requirements/acceptance-scenarios.md:
\* neither exists, the first exists and names a requirement, both exist.
ScenarioFiles ==
    { << ScenarioFile(FALSE, <<>>), ScenarioFile(FALSE, <<>>) >>,
      << ScenarioFile(TRUE, <<Prose({FR7})>>), ScenarioFile(FALSE, <<>>) >>,
      << ScenarioFile(TRUE, <<Prose({})>>),
         ScenarioFile(TRUE, <<Prose({NFR1})>>) >> }

TraceDocuments ==
    { <<SectionHeading(2, "Requirements")>> \o reqs \o arch \o risk :
        reqs \in SeqsUpTo(ReqLines, MaxReqs),
        arch \in SectionVariants("System Architecture"),
        risk \in SectionVariants("Risks and Mitigations") }

\* ---- the process: main() and TraceabilityValidator.validate()

InitTrace ==
    /\ pc = "extract_requirements"
    /\ exit_code = NoExit
    /\ spec_exists \in BOOLEAN
    /\ strict = FALSE
    /\ tr_content \in (IF spec_exists THEN TraceDocuments ELSE {<<>>})
    /\ scenario_files \in ScenarioFiles
    /\ requirements = NoRequirements
    /\ traces = NoTraces
    /\ matrix = <<>>
    /\ IdleLists
    /\ IdleLinks
    /\ IdlePlan
    /\ IdleOrch
    /\ IdleScorer
    /\ IdleStruct
    /\ IdleAlign

\* _extract_requirements; open() of a missing spec file raises and the
\* process ends with the interpreter's exit code 1.
trace_extract_requirements ==
    /\ pc = "extract_requirements"
    /\ IF spec_exists
       THEN /\ requirements' = extract_requirements(tr_content)
            /\ pc' = "find_architecture_traces"
            /\ exit_code' = exit_code
       ELSE /\ requirements' = requirements
            /\ pc' = "exited"
            /\ exit_code' = 1
    /\ UNCHANGED <<spec_exists, strict, tr_content, scenario_files, traces, matrix, listVars,
                   notTrace>>

trace_find_architecture_traces ==
    /\ pc = "find_architecture_traces"
    /\ LET r == find_architecture_traces(tr_content, requirements, traces)
       IN requirements' = r.requirements /\ traces' = r.traces
    /\ pc' = "find_acceptance_traces"
    /\ UNCHANGED <<exit_code, spec_exists, strict, tr_content, scenario_files, matrix,
                   listVars, notTrace>>

trace_find_acceptance_traces ==
    /\ pc = "find_acceptance_traces"
    /\ traces' = find_acceptance_traces(all_content(tr_content, scenario_files),
                                      requirements, traces)
    /\ pc' = "find_risk_traces"
    /\ UNCHANGED <<exit_code, spec_exists, strict, tr_content, scenario_files, requirements,
                   matrix, listVars, notTrace>>

trace_find_risk_traces ==
    /\ pc = "find_risk_traces"
    /\ LET r == find_risk_traces(tr_content, requirements, traces, warnings)
       IN traces' = r.traces /\ warnings' = r.warnings
    /\ pc' = "validate_coverage"
    /\ UNCHANGED <<exit_code, spec_exists, strict, tr_content, scenario_files, requirements,
                   matrix, errors, notTrace>>

trace_validate_coverage ==
    /\ pc = "validate_coverage"
    /\ LET r == validate_coverage(requirements, traces, errors, warnings)
       IN errors' = r.errors /\ warnings' = r.warnings
    /\ pc' = "report_results"
    /\ UNCHANGED <<exit_code, spec_exists, strict, tr_content, scenario_files, requirements,
                   traces, matrix, notTrace>>

\* _report_results and the sys.exit of main; the report file is taken to be
\* writable.
trace_report_results ==
    /\ pc = "report_results"
    /\ matrix' = traceability_matrix(requirements, traces)
    /\ exit_code' = IF Len(errors) = 0 THEN 0 ELSE 1
    /\ pc' = "exited"
    /\ UNCHANGED <<spec_exists, strict, tr_content, scenario_files, requirements, traces,
                   listVars, notTrace>>

NextTrace ==
    \/ trace_extract_requirements
    \/ trace_find_architecture_traces
    \/ trace_find_acceptance_traces
    \/ trace_find_risk_traces
    \/ trace_validate_coverage
    \/ trace_report_results

SpecTrace == InitTrace /\ [][NextTrace]_vars


(***************************************************************************)
(*                      validate-alignment.py                              *)
(***************************************************************************)

\* The largest numbers of roadmap lines and of phase-plan files tried.
MaxRoadmapLines == 3
MaxPlans == 1

\* ---- the lines of SPEC.md, by what the extraction patterns find in them

\* "FR-<n>: <text>" or "NFR-<n>: <text>"
SpecRequirement(type, text) ==
    [kind |-> "requirement", type |-> type, text |-> text, num |-> 0,
     unit |-> "", frontend |-> <<>>, backend |-> <<>>]
\* "<num> <unit>" with a unit the timeline pattern accepts in any letter case
SpecTimeline(num, unit) ==
    [kind |-> "timeline", type |-> "", text |-> "", num |-> num,
     unit |-> unit, frontend |-> <<>>, backend |-> <<>>]
\* "<num> developers"
SpecTeam(num) ==
    [kind |-> "team", type |-> "", text |-> "", num |-> num,
     unit |-> "developers", frontend |-> <<>>, backend |-> <<>>]
\* the "Technology Stack" text with its "Frontend: ..." and "Backend: ..."
SpecTechnologyStack(frontend, backend) ==
    [kind |-> "tech_stack", type |-> "", text |-> "", num |-> 0,
     unit |-> "", frontend |-> frontend, backend |-> backend]

\* re.findall over the content: what is found in the lines of a kind, in order.
RECURSIVE FindAll(_, _, _, _)
FindAll(doc, Matches(_), Group(_), k) ==
    IF k > Len(doc) THEN <<>>
    ELSE (IF Matches(doc[k]) THEN <<Group(doc[k])>> ELSE <<>>)
         \o FindAll(doc, Matches, Group, k + 1)

\* _extract_spec_data.  r'FR-\d+[:\s]+([^\n]+)' is not anchored: it also finds
\* the "FR-<n>" inside "NFR-<n>".
extract_spec_data(doc) ==
    LET IsReq(line) == line.kind = "requirement"
        IsNfr(line) == line.kind = "requirement" /\ line.type = "NFR"
        IsTech(line) == line.kind = "tech_stack"
        IsTimeline(line) == line.kind = "timeline"
        IsTeam(line) == line.kind = "team"
        Text(line) == line.text
        Same(line) == line
        NumUnit(line) == <<line.num, line.unit>>
        tech == FindAll(doc, IsTech, Same, 1)
        timeline_matches == FindAll(doc, IsTimeline, NumUnit, 1)
        team_matches == FindAll(doc, IsTeam, NumUnit, 1)
    IN [requirements |-> [functional     |-> FindAll(doc, IsReq, Text, 1),
                          non_functional |-> FindAll(doc, IsNfr, Text, 1)],
        has_requirements |-> TRUE,
        tech_stack |-> IF tech # <<>>
                       THEN [frontend |-> tech[1].frontend,
                             backend  |-> tech[1].backend,
                             database |-> <<>>]
                       ELSE NoSpecData.tech_stack,
        has_tech_stack |-> tech # <<>>,
        timeline  |-> IF timeline_matches # <<>> THEN timeline_matches[1] ELSE <<>>,
        team_size |-> IF team_matches # <<>> THEN team_matches[1] ELSE <<>>]

\* ---- the lines of the roadmap

\* A line with "Phase <num>: <name>" (or "phase <num> <rest>"), and a line of
\* prose; words: the lower-case words a line holds.
RoadmapPhase(num, words) == [phase |-> num, words |-> words]
RoadmapProse(words) == [phase |-> "", words |-> words]

\* The key f"Phase {num}" of a phase, written here as the text after "Phase ".
PhaseKey(num) == num

\* _extract_roadmap_data: phases holds one entry for every match of
\* phase_pattern; deliverables is keyed by phase (no "Delivers:" line among
\* the lines tried).
extract_roadmap_data(doc) ==
    LET IsPhase(line) == line.phase # ""
        Num(line) == line.phase
        phases == FindAll(doc, IsPhase, Num, 1)
    IN [has_phases |-> TRUE,
        phases |-> phases,
        deliverables |-> { PhaseKey(phases[k]) : k \in 1..Len(phases) }]

\* ---- the phase-plan files (*.yml)

\* phase: str() of metadata.phase, "unknown" when the key is missing.
PlanFile(parse, phase, team_size, duration_weeks, frontend) ==
    [parse |-> parse, phase |-> phase, team_size |-> team_size,
     duration_weeks |-> duration_weeks, frontend |-> frontend]

NoTech == [present |-> FALSE, items |-> <<>>]
Tech(items) == [present |-> TRUE, items |-> items]

\* _extract_phase_plan_data: the loop over the plan files, from file k on.
RECURSIVE extract_plans(_, _, _)
extract_plans(files, k, acc) ==
    IF k > Len(files) THEN acc
    ELSE IF files[k].parse = "ok"
    THEN extract_plans(files, k + 1,
           [acc EXCEPT !.phase_plans =
              SetItem(@, [id |-> PhaseKey(files[k].phase),
                          team_size |-> files[k].team_size,
                          duration |-> files[k].duration_weeks,
                          tech |-> [frontend |-> files[k].frontend,
                                    backend |-> NoTech]])])
    ELSE extract_plans(files, k + 1,
           [acc EXCEPT !.warnings =
              Append(@, Message("Could not parse", "plan file"))])

extract_phase_plan_data(proj, plans, warns) ==
    IF ~proj.plans_dir_exists
    THEN [phase_plans |-> plans, warnings |-> warns]
    ELSE extract_plans(proj.plan_files, 1,
                       [phase_plans |-> plans, warnings |-> warns])

\* _check_files_exist, had it gone on after recording the missing roadmap.
check_files_exist_without_return(proj, errs, warns) ==
    IF proj.spec_at = "none"
    THEN [ok |-> FALSE, warnings |-> warns,
          errors |-> Append(errs, Message("SPEC.md not found", "project_dir"))]
    ELSE [ok |-> TRUE,
          errors |-> IF ~proj.roadmap_found
                     THEN Append(errs, Message("No roadmap file found", ""))
                     ELSE errs,
          warnings |-> IF ~proj.plans_dir_exists
                       THEN Append(warns, Message("No phase-plans directory found", ""))
                       ELSE warns]

\* _check_files_exist: its result and the messages it leaves.
check_files_exist(proj, errs, warns) ==
    IF proj.spec_at = "none"
    THEN [ok |-> FALSE, warnings |-> warns,
          errors |-> Append(errs, Message("SPEC.md not found", "project_dir"))]
    ELSE IF ~proj.roadmap_found
    THEN [ok |-> FALSE, warnings |-> warns,
          errors |-> Append(errs, Message("No roadmap file found", ""))]
    ELSE [ok |-> TRUE, errors |-> errs,
          warnings |-> IF ~proj.plans_dir_exists
                       THEN Append(warns, Message("No phase-plans directory found", ""))
                       ELSE warns]

\* req.lower().split()[:3] for the requirement texts tried.
FirstWords(req) ==
    CASE req = "User login with password" -> {"user", "login", "with"}
      [] req = "Export audit reports"     -> {"export", "audit", "reports"}
      [] req = "Response under 200ms"     -> {"response", "under", "200ms"}
      [] OTHER                            -> {}

\* keyword in roadmap_content
InRoadmap(keyword, doc) == \E k \in 1..Len(doc) : keyword \in doc[k].words

Take(seq, n) == SubSeq(seq, 1, Min(n, Len(seq)))

\* _validate_spec_to_roadmap: one warning when one of the first five
\* requirements has none of its first three words in the roadmap.
validate_spec_to_roadmap(sd, doc, warns) ==
    LET all_requirements ==
          sd.requirements.functional \o sd.requirements.non_functional
        checked == Take(all_requirements, 5)
        untraced_reqs ==
          SelectSeq(checked,
                    LAMBDA req : ~\E keyword \in FirstWords(req) :
                                     InRoadmap(keyword, doc))
    IN IF untraced_reqs # <<>>
       THEN Append(warns, Message("Some requirements may not be in roadmap",
                                  Take(untraced_reqs, 3)[1]))
       ELSE warns

\* _validate_roadmap_to_phases: the loop over roadmap_data["phases"], from
\* entry k on.
RECURSIVE validate_roadmap_to_phases(_, _, _, _)
validate_roadmap_to_phases(phases, plans, k, warns) ==
    IF k > Len(phases) THEN warns
    ELSE validate_roadmap_to_phases(phases, plans, k + 1,
           IF PhaseKey(phases[k]) \notin Keys(plans)
           THEN Append(warns, Message("in roadmap but no phase plan found",
                                      PhaseKey(phases[k])))
           ELSE warns)

\* item in str(phase_items) for the technology names tried.
ItemIn(item, phase_items) ==
    \E j \in 1..Len(phase_items) :
        \/ phase_items[j] = item
        \/ item = "React" /\ phase_items[j] = "React 18"

\* _validate_tech_stack_consistency: the loops over the plans and over
\* ["frontend", "backend"], from plan k on.
RECURSIVE validate_tech_stack_consistency(_, _, _, _)
validate_tech_stack_consistency(sd, plans, k, warns) ==
    IF k > Len(plans) THEN warns
    ELSE LET Differs(spec_items, phase_tech) ==
               /\ sd.has_tech_stack
               /\ phase_tech.present
               /\ ~\E j \in 1..Len(spec_items) :
                      ItemIn(spec_items[j], phase_tech.items)
             f == IF Differs(sd.tech_stack.frontend, plans[k].tech.frontend)
                  THEN <<Message("uses different frontend tech than SPEC",
                                 plans[k].id)>>
                  ELSE <<>>
             b == IF Differs(sd.tech_stack.backend, plans[k].tech.backend)
                  THEN <<Message("uses different backend tech than SPEC",
                                 plans[k].id)>>
                  ELSE <<>>
         IN validate_tech_stack_consistency(sd, plans, k + 1, warns \o f \o b)

\* sum(plan.get("duration", 0) for plan in self.phase_plans.values())
RECURSIVE total_weeks(_, _)
total_weeks(plans, k) ==
    IF k > Len(plans) THEN 0 ELSE plans[k].duration + total_weeks(plans, k + 1)

\* "month" in spec_unit: the test is case-sensitive, the extraction is not.
ContainsMonth(spec_unit) == spec_unit \in {"month", "months"}

Abs(x) == IF x >= 0 THEN x ELSE -x

\* _validate_timeline_consistency
validate_timeline_consistency(sd, plans, warns) ==
    IF sd.timeline # <<>>
    THEN LET spec_time == sd.timeline[1]
             spec_unit == sd.timeline[2]
             spec_weeks == spec_time * (IF ContainsMonth(spec_unit) THEN 4 ELSE 1)
         IN IF Abs(total_weeks(plans, 1) - spec_weeks) > 2
            THEN Append(warns, Message("Timeline mismatch", "SPEC"))
            ELSE warns
    ELSE warns

\* _validate_resource_consistency: the loop over the plans, from plan k on.
RECURSIVE validate_resource_consistency(_, _, _, _)
validate_resource_consistency(sd, plans, k, warns) ==
    IF sd.team_size = <<>> \/ k > Len(plans) THEN warns
    ELSE validate_resource_consistency(sd, plans, k + 1,
           IF plans[k].team_size > sd.team_size[1]
           THEN Append(warns, Message("requires more people than SPEC mentions",
                                      plans[k].id))
           ELSE warns)

\* _report_results: the value returned.
report_result(errs, warns) ==
    IF errs = <<>> /\ Len(warns) < 5 THEN TRUE ELSE Len(errs) = 0

\* ---- the projects validated

SpecContents ==
    { <<>>,
      << SpecRequirement("FR", "User login with password"),
         SpecTimeline(6, "months"), SpecTeam(3),
         SpecTechnologyStack(<<"React">>, <<>>) >>,
      << SpecRequirement("FR", "Export audit reports"),
         SpecRequirement("NFR", "Response under 200ms"),
         SpecTimeline(2, "Months") >>,
      << SpecRequirement("NFR", "Response under 200ms"),
         SpecTimeline(8, "weeks"), SpecTeam(5) >> }

RoadmapLines ==
    { RoadmapPhase("1", {"phase", "foundation", "user", "login"}),
      RoadmapPhase("2", {"phase", "build", "export"}),
      RoadmapPhase("02", {"phase", "build"}),
      RoadmapProse({"overview"}) }

PlanFiles ==
    { PlanFile("ok", "1", 3, 8, Tech(<<"React 18">>)),
      PlanFile("ok", "2", 6, 24, Tech(<<"Vue">>)),
      PlanFile("ok", "unknown", 0, 0, NoTech),
      PlanFile("yaml_error", "unknown", 0, 0, NoTech) }

Project(spec_at, spec_lines, roadmap_found, roadmap_lines, dir, files) ==
    [spec_at |-> spec_at, spec_lines |-> spec_lines,
     roadmap_found |-> roadmap_found, roadmap_lines |-> roadmap_lines,
     plans_dir_exists |-> dir, plan_files |-> files]

\* Projects with both files and any roadmap and plans; projects whose spec
\* is at the alternative path; projects without spec; projects without
\* roadmap.
Projects ==
    { Project("spec/SPEC.md", sc, TRUE, rm, TRUE, files) :
        sc \in SpecContents, rm \in SeqsUpTo(RoadmapLines, MaxRoadmapLines),
        files \in SeqsUpTo(PlanFiles, MaxPlans) }
    \cup { Project(at, sc, TRUE, rm, FALSE, <<>>) :
             at \in {"spec/SPEC.md", "SPEC.md"}, sc \in SpecContents,
             rm \in SeqsUpTo(RoadmapLines, MaxRoadmapLines) }
    \cup { Project("none", <<>>, found, <<>>, dir, <<>>) :
             found \in BOOLEAN, dir \in BOOLEAN }
    \cup { Project(at, sc, FALSE, <<>>, dir, <<>>) :
             at \in {"spec/SPEC.md", "SPEC.md"}, sc \in SpecContents,
             dir \in BOOLEAN }

\* ---- the process: main() and AlignmentValidator.validate()

InitAlign ==
    /\ pc = "check_files_exist"
    /\ exit_code = NoExit
    /\ spec_exists = FALSE
    /\ strict = FALSE
    /\ project \in Projects
    /\ spec_data = NoSpecData
    /\ roadmap_data = NoRoadmapData
    /\ phase_plans = <<>>
    /\ report_file = FALSE
    /\ IdleLists
    /\ IdleLinks
    /\ IdlePlan
    /\ IdleOrch
    /\ IdleScorer
    /\ IdleStruct
    /\ IdleTrace

\* validate: if not self._check_files_exist(): return False, and main's
\* sys.exit(1).
align_check_files_exist ==
    /\ pc = "check_files_exist"
    /\ LET r == check_files_exist(project, errors, warnings)
       IN /\ errors' = r.errors
          /\ warnings' = r.warnings
          /\ IF r.ok
             THEN pc' = "extract_spec_data" /\ exit_code' = exit_code
             ELSE pc' = "exited" /\ exit_code' = 1
    /\ UNCHANGED <<alignVars, notAlign>>

align_extract_spec_data ==
    /\ pc = "extract_spec_data"
    /\ spec_data' = extract_spec_data(project.spec_lines)
    /\ pc' = "extract_roadmap_data"
    /\ UNCHANGED <<exit_code, project, roadmap_data, phase_plans, report_file,
                   listVars, notAlign>>

align_extract_roadmap_data ==
    /\ pc = "extract_roadmap_data"
    /\ roadmap_data' = extract_roadmap_data(project.roadmap_lines)
    /\ pc' = "extract_phase_plan_data"
    /\ UNCHANGED <<exit_code, project, spec_data, phase_plans, report_file,
                   listVars, notAlign>>

align_extract_phase_plan_data ==
    /\ pc = "extract_phase_plan_data"
    /\ LET r == extract_phase_plan_data(project, phase_plans, warnings)
       IN phase_plans' = r.phase_plans /\ warnings' = r.warnings
    /\ pc' = "validate_spec_to_roadmap"
    /\ UNCHANGED <<exit_code, project, spec_data, roadmap_data, report_file,
                   errors, notAlign>>

\* The five alignment checks only append to self.warnings.
align_validate_spec_to_roadmap ==
    /\ pc = "validate_spec_to_roadmap"
    /\ warnings' =
         validate_spec_to_roadmap(spec_data, project.roadmap_lines, warnings)
    /\ pc' = "validate_roadmap_to_phases"
    /\ UNCHANGED <<exit_code, alignVars, errors, notAlign>>

align_validate_roadmap_to_phases ==
    /\ pc = "validate_roadmap_to_phases"
    /\ warnings' =
         validate_roadmap_to_phases(roadmap_data.phases, phase_plans, 1, warnings)
    /\ pc' = "validate_tech_stack_consistency"
    /\ UNCHANGED <<exit_code, alignVars, errors, notAlign>>

align_validate_tech_stack_consistency ==
    /\ pc = "validate_tech_stack_consistency"
    /\ warnings' =
         validate_tech_stack_consistency(spec_data, phase_plans, 1, warnings)
    /\ pc' = "validate_timeline_consistency"
    /\ UNCHANGED <<exit_code, alignVars, errors, notAlign>>

align_validate_timeline_consistency ==
    /\ pc = "validate_timeline_consistency"
    /\ warnings' =
         validate_timeline_consistency(spec_data, phase_plans, warnings)
    /\ pc' = "validate_resource_consistency"
    /\ UNCHANGED <<exit_code, alignVars, errors, notAlign>>

align_validate_resource_consistency ==
    /\ pc = "validate_resource_consistency"
    /\ warnings' =
         validate_resource_consistency(spec_data, phase_plans, 1, warnings)
    /\ pc' = "report_results"
    /\ UNCHANGED <<exit_code, alignVars, errors, notAlign>>

\* _report_results and the sys.exit of main; the report file is taken to be
\* writable.
align_report_results ==
    /\ pc = "report_results"
    /\ report_file' = TRUE
    /\ exit_code' = IF report_result(errors, warnings) THEN 0 ELSE 1
    /\ pc' = "exited"
    /\ UNCHANGED <<project, spec_data, roadmap_data, phase_plans, listVars,
                   notAlign>>

NextAlign ==
    \/ align_check_files_exist
    \/ align_extract_spec_data
    \/ align_extract_roadmap_data
    \/ align_extract_phase_plan_data
    \/ align_validate_spec_to_roadmap
    \/ align_validate_roadmap_to_phases
    \/ align_validate_tech_stack_consistency
    \/ align_validate_timeline_consistency
    \/ align_validate_resource_consistency
    \/ align_report_results

SpecAlign == InitAlign /\ [][NextAlign]_vars

(***************************************************************************)
(*          Properties of validate-requirements-traceability.py            *)
(***************************************************************************)

\* The validator read the document and ran its pass to the end.
Traced == pc = "exited" /\ spec_exists

\* The entries of both requirements dicts.
Entries(reqs) ==
    { reqs.functional[k] : k \in 1..Len(reqs.functional) }
    \cup { reqs.non_functional[k] : k \in 1..Len(reqs.non_functional) }

\* The lines of the section with one of the titles: from its heading to the
\* next heading of level 1 or 2, its deeper subsections included.
RECURSIVE SectionEnd(_, _)
SectionEnd(doc, k) ==
    IF k = Len(doc) \/ doc[k + 1].hashes \in 1..2 THEN k
    ELSE SectionEnd(doc, k + 1)

SectionLines(doc, titles) ==
    LET k == FirstLine(doc, titles, 1)
    IN IF k = 0 THEN {} ELSE k..SectionEnd(doc, k)

\* The identifier's text occurs in a line of the section (as a token or
\* inside another identifier); the identifier itself is written in one.
TextInSection(id, doc, titles) ==
    \E k \in SectionLines(doc, titles) :
        \E written \in doc[k].mentions : IdOccursIn(id, written)

TokenInSection(id, doc, titles) ==
    \E k \in SectionLines(doc, titles) : id \in doc[k].mentions

MessagesNaming(list, text, id) ==
    { n \in 1..Len(list) : list[n] = Message(text, id) }

\* C13: every extracted requirement whose summary holds a high-risk keyword
\* and whose identifier does not occur in the Risks section text has no risk
\* trace and is named by a WARNING, whatever sections the document has.
C13_UnaddressedHighRiskIsWarned ==
    Traced =>
        \A req \in Entries(requirements) :
            ( /\ is_high_risk(req.text)
              /\ ~TextInSection(req.id, tr_content, RiskTitles) )
            => /\ req.id \notin traces.to_risks
               /\ MessagesNaming(warnings,
                     "High-risk requirement not addressed in risk section",
                     req.id) # {}

\* C14: a requirement has an architecture trace exactly when its identifier
\* is written, as a token, in the System Architecture section, which runs to
\* the next heading of level 1 or 2.
C14_ArchitectureTraceIffTokenInSection ==
    Traced =>
        \A req \in Entries(requirements) :
            /\ req.id \in traces.to_architecture
                 <=> TokenInSection(req.id, tr_content, ArchitectureTitles)
            /\ req.traced <=> req.id \in traces.to_architecture

\* C15: one ERROR for each functional requirement without an architecture
\* trace, one WARNING and no ERROR for each non-functional one without it,
\* and exit code 0 exactly when every functional requirement has the trace.
C15_CoverageErrorsDecideTheResult ==
    Traced =>
        /\ \A id \in Keys(requirements.functional) :
              Cardinality({ n \in 1..Len(errors) : errors[n].id = id })
                = IF id \in traces.to_architecture THEN 0 ELSE 1
        /\ \A id \in Keys(requirements.non_functional) :
              /\ Cardinality(MessagesNaming(warnings,
                     "Non-functional requirement not explicitly traced", id))
                   = IF id \in traces.to_architecture THEN 0 ELSE 1
              /\ \A n \in 1..Len(errors) : errors[n].id # id
        /\ exit_code = 0
             <=> Keys(requirements.functional) \subseteq traces.to_architecture
        /\ exit_code \in {0, 1}

\* C15 witness: a run with a traced functional requirement, an untraced
\* non-functional one and several warnings passed.
C15_Witness ==
    /\ Traced
    /\ Keys(requirements.functional) # {}
    /\ \E id \in Keys(requirements.non_functional) :
          id \notin traces.to_architecture
    /\ Len(warnings) >= 2
    /\ exit_code = 0

\* Reachability probe: a run with an untraced functional requirement failed
\* with one error.
C15_UntracedFunctionalFails ==
    /\ Traced
    /\ Len(errors) = 1
    /\ Keys(requirements.non_functional) \subseteq traces.to_architecture
    /\ Keys(requirements.non_functional) # {}
    /\ exit_code = 1

\* C16: within a pass, an architecture, acceptance or risk trace and a
\* requirement's traced flag, once set, stay set.
C16_TraceFlagsMonotonic ==
    [][ /\ traces.to_architecture \subseteq traces'.to_architecture
        /\ traces.to_acceptance \subseteq traces'.to_acceptance
        /\ traces.to_risks \subseteq traces'.to_risks
        /\ \A req \in Entries(requirements) :
              req.traced => \E later \in Entries(requirements') :
                               later.id = req.id /\ later.traced
      ]_vars

\* C16 witness: at the end of a pass a requirement still has the three
\* traces and the traced flag set by the earlier steps.
C16_Witness ==
    /\ Traced
    /\ \E req \in Entries(requirements) :
          /\ req.traced
          /\ req.id \in traces.to_architecture
          /\ req.id \in traces.to_acceptance
          /\ req.id \in traces.to_risks

\* C17: the matrix shows N/A in the risk column exactly for the requirements
\* that are not high-risk; a high-risk requirement shows "yes" when its
\* identifier is in the Risks section and "no" when it is not.
C17_RiskColumnResolvedForHighRisk ==
    Traced =>
        \A req \in Entries(requirements) :
            /\ matrix[req.id].risk = "N/A" <=> ~is_high_risk(req.text)
            /\ is_high_risk(req.text)
                 => matrix[req.id].risk =
                      IF TextInSection(req.id, tr_content, RiskTitles)
                      THEN "yes" ELSE "no"


(***************************************************************************)
(*                 Properties of validate-alignment.py                     *)
(***************************************************************************)

\* The files the validator requires are missing: no SPEC.md at either path,
\* or no roadmap file.
FilesMissing ==
    project # NoProject /\ (project.spec_at = "none" \/ ~project.roadmap_found)

AlignmentEnded == pc = "exited" /\ project # NoProject

\* C18: the Alignment Validator passes (exit code 0) exactly when it recorded
\* no error and fewer than five warnings, and fails otherwise.
C18_PassIffNoErrorAndUnderFiveWarnings ==
    AlignmentEnded =>
        /\ exit_code \in {0, 1}
        /\ exit_code = 0 <=> (Len(errors) = 0 /\ Len(warnings) < 5)

\* C19: when SPEC.md is at neither path or no roadmap file is found, the
\* validator records an error and fails at once: nothing is extracted, none
\* of the five checks runs and no report file is written.
C19_MissingFilesAbortBeforeAnyStep ==
    /\ ( (FilesMissing /\ pc # "check_files_exist")
             => /\ pc = "exited"
                /\ exit_code = 1
                /\ Len(errors) = 1
                /\ errors[1].message \in {"SPEC.md not found",
                                          "No roadmap file found"}
                /\ warnings = <<>>
                /\ spec_data = NoSpecData
                /\ roadmap_data = NoRoadmapData
                /\ phase_plans = <<>>
                /\ ~report_file )
    /\ ( (project # NoProject /\ ~FilesMissing /\ pc = "exited")
             => errors = <<>> /\ report_file )

\* C19 witness: a project with SPEC.md but without roadmap ended with the
\* error and nothing else.
C19_Witness ==
    /\ AlignmentEnded
    /\ project.spec_at # "none"
    /\ project.spec_lines # <<>>
    /\ ~project.roadmap_found
    /\ errors = <<Message("No roadmap file found", "")>>
    /\ exit_code = 1
    /\ ~report_file

\* Reachability probe: a project without SPEC.md ended the same way.
C19_SpecMissingReached ==
    /\ AlignmentEnded
    /\ project.spec_at = "none"
    /\ project.roadmap_found
    /\ errors = <<Message("SPEC.md not found", "project_dir")>>
    /\ exit_code = 1

\* C20: the roadmap-to-phases check leaves exactly one warning '<Phase N> in
\* roadmap but no phase plan found' for each distinct phase of the roadmap
\* without phase-plan record, and none for a phase that has one.
C20_OneWarningPerPhaseWithoutPlan ==
    (AlignmentEnded /\ report_file) =>
        \A n \in 1..Len(roadmap_data.phases) :
            LET key == PhaseKey(roadmap_data.phases[n])
            IN Cardinality(MessagesNaming(warnings,
                              "in roadmap but no phase plan found", key))
                 = IF key \in Keys(phase_plans) THEN 0 ELSE 1


\* The month units the timeline pattern accepts (re.IGNORECASE).
MonthUnits == {"month", "months", "Month", "Months", "MONTHS"}

\* The spec's declared timeline in weeks, months counting four weeks.
DeclaredWeeks == spec_data.timeline[1]
                   * (IF spec_data.timeline[2] \in MonthUnits THEN 4 ELSE 1)

\* C21: when the spec declares a timeline, the timeline check leaves a
\* timeline-mismatch warning if and only if the phase-plan durations sum to
\* more than two weeks away from the declared timeline in weeks (a number of
\* months times four, in any letter case).
C21_TimelineWarningIffMoreThanTwoWeeksApart ==
    (AlignmentEnded /\ report_file /\ spec_data.timeline # <<>>) =>
        ( MessagesNaming(warnings, "Timeline mismatch", "SPEC") # {}
            <=> Abs(total_weeks(phase_plans, 1) - DeclaredWeeks) > 2 )


(***************************************************************************)
(*            Further properties of score-spec-quality.py                  *)
(***************************************************************************)

\* The DimensionScores of the report that carry a name.
ScoresNamed(title) ==
    { k \in 1..Len(report.dimensions) : report.dimensions[k].name = title }

\* The placeholder vocabulary of the specification.
SpecVocabulary == {"TODO", "TBD", "FIXME", "XXX", "PLACEHOLDER", "TBC"}

\* The occurrences of bracketed vocabulary tokens in the document scored.
VocabularyOccurrences ==
    Cardinality({ k \in 1..Len(content.bracketed) :
                    Upper(content.bracketed[k]) \in SpecVocabulary })

\* C22: the Completeness placeholder sub-check is max(0, 3 - n), n being the
\* number of bracketed occurrences of TODO, TBD, FIXME, XXX, PLACEHOLDER or
\* TBC in the document.
C22_PlaceholderSubCheckCountsTheVocabulary ==
    Scored =>
        \A k \in ScoresNamed("Completeness") :
            report.dimensions[k].details.placeholders
                = Max(0, 3 - VocabularyOccurrences)

\* The sub-checks of the four dimensions: the key of details, the maximum
\* weight and the suggestions that belong to the sub-check.
SubCheck(dimension, detail, weight, texts) ==
    [dimension |-> dimension, detail |-> detail, weight |-> weight,
     texts |-> texts]

SubChecks ==
    { SubCheck("Completeness", "core_sections", 10, {"Add missing sections"}),
      SubCheck("Completeness", "requirements", 8,
               {"Add more functional requirements (aim for 5+)",
                "Add more non-functional requirements (aim for 4+)"}),
      SubCheck("Completeness", "placeholders", 3,
               {"Replace placeholder(s) with actual content"}),
      SubCheck("Completeness", "cross_references", 4,
               {"Add more internal cross-references between sections"}),
      SubCheck("Clarity", "language_precision", 8,
               {"Add more specific, quantified metrics"}),
      SubCheck("Clarity", "structure_flow", 6,
               {"Fix heading hierarchy - don't skip levels"}),
      SubCheck("Clarity", "consistency", 7, {}),
      SubCheck("Clarity", "visual_aids", 4,
               {"Add architecture or flow diagrams",
                "Use more tables for structured data"}),
      SubCheck("Implementability", "technical_feasibility", 10,
               {"Specify versions for technologies",
                "Add justifications for technical choices"}),
      SubCheck("Implementability", "resources", 6,
               {"Add implementation timeline",
                "Specify team composition and skills",
                "Include budget estimates"}),
      SubCheck("Implementability", "dependencies", 5,
               {"Better document external dependencies"}),
      SubCheck("Implementability", "risk_mitigation", 4,
               {"Add more risk analysis and mitigation strategies"}),
      SubCheck("Testability", "measurable_requirements", 10,
               {"Make requirements more specific with 'shall/must' language",
                "Add more quantifiable thresholds"}),
      SubCheck("Testability", "test_scenarios", 8,
               {"Add more test scenarios or acceptance criteria"}),
      SubCheck("Testability", "acceptance_criteria", 3,
               {"Define acceptance criteria for each major feature"}),
      SubCheck("Testability", "quality_metrics", 4,
               {"Define more quality metrics and how to measure them"}) }

\* C23: a DimensionScore holds a suggestion of a sub-check if and only if
\* that sub-check scored strictly below its maximum weight.
C23_SuggestionIffBelowMaximum ==
    Scored =>
        \A check \in SubChecks : \A k \in ScoresNamed(check.dimension) :
            LET d == report.dimensions[k]
            IN (\E text \in check.texts : SeqContains(d.suggestions, text))
                 <=> d.details[check.detail] < check.weight

\* The required section names that start the title of a heading of level 1
\* to 3 of the document scored.
SectionsPresent ==
    { k \in 1..Len(required_sections) :
        \E line \in content.section_lines :
            /\ line.prefix \in {"#", "##", "###"}
            /\ line.name = required_sections[k] }

\* C24: the Completeness required-section sub-check is floor(10 * k / 8), k
\* being the number of the eight required section names that start the title
\* of a heading of level 1 to 3.
C24_SectionSubCheckIsCoverageOfEight ==
    Scored =>
        \A k \in ScoresNamed("Completeness") :
            report.dimensions[k].details.core_sections
                = (10 * Cardinality(SectionsPresent)) \div 8


(***************************************************************************)
(*           Further properties of validate-spec-structure.py              *)
(***************************************************************************)

\* _score_clarity: re.findall(r'^(#{1,6})\s+(.+)$', self.content,
\* re.MULTILINE), as the levels of the heading lines from line k on.
RECURSIVE findall_headings(_, _)
findall_headings(doc, k) ==
    IF k > Len(doc) THEN <<>>
    ELSE (IF HeadingMatch(doc[k]) THEN <<doc[k].hashes>> ELSE <<>>)
         \o findall_headings(doc, k + 1)

\* The issues of the validator that carry a message.
IssuesSaying(message) ==
    { n \in 1..Len(issues) : issues[n].message = message }

\* Some heading is more than one level deeper than the heading before it.
LevelSkipped(levels) ==
    \E k \in 2..Len(levels) : levels[k] > levels[k - 1] + 1

\* C26: on every document the scorer's heading-hierarchy sub-check awards
\* its 6 points exactly when the validator emits no 'Heading level skipped'
\* warning, which is exactly when no heading is more than one level deeper
\* than the heading before it.
C26_HierarchySubCheckAgreesWithValidator ==
    Validated =>
        /\ structure_score(findall_headings(lines, 1)) = 6
             <=> IssuesSaying("Heading level skipped") = {}
        /\ IssuesSaying("Heading level skipped") = {}
             <=> ~LevelSkipped(findall_headings(lines, 1))


\* The 'Empty section' warnings that carry a line number.
EmptySectionAt(k) ==
    { n \in IssuesSaying("Empty section") :
        issues[n].level = "WARNING" /\ issues[n].line_number = k }

\* Line k is a heading line followed by another heading line with no or one
\* blank line between them.
HeadingFollowedByHeading(doc, k) ==
    /\ HeadingMatch(doc[k])
    /\ \/ k + 1 <= Len(doc) /\ HeadingMatch(doc[k + 1])
       \/ /\ k + 2 <= Len(doc)
          /\ IsBlank(doc[k + 1])
          /\ HeadingMatch(doc[k + 2])

\* A line that carries content: neither blank nor starting with '#'.
CarriesContent(line) == ~IsBlank(line) /\ ~StartsWithHash(line)

\* Line k is a heading line whose next line, or whose next line after one
\* blank line, carries content.
HeadingFollowedByContent(doc, k) ==
    /\ HeadingMatch(doc[k])
    /\ \/ k + 1 <= Len(doc) /\ CarriesContent(doc[k + 1])
       \/ /\ k + 2 <= Len(doc)
          /\ IsBlank(doc[k + 1])
          /\ CarriesContent(doc[k + 2])

\* C27: the validator emits an 'Empty section' WARNING with the heading's
\* line number for every heading line followed by another heading line with
\* no or one blank line between them, and none for a heading whose next
\* non-blank line within that window carries content.
C27_EmptySectionWarnedForHeadingBeforeHeading ==
    Validated =>
        \A k \in 1..Len(lines) :
            /\ HeadingFollowedByHeading(lines, k) => EmptySectionAt(k) # {}
            /\ HeadingFollowedByContent(lines, k) => EmptySectionAt(k) = {}


(***************************************************************************)
(*                      validate-spec-links.py                             *)
(***************************************************************************)

\* The largest number of lines of the spec file tried.
MaxLinkLines == 2

\* Text is a sequence of atoms: words, and the characters between words.  No
\* word tried is part of another, so 'a in b' is: a is a run of atoms of b.

\* ---- the lines of a markdown file, with their text

LinkLine(kind, text, url, ref_id, atoms) ==
    [kind |-> kind, text |-> text, url |-> url, ref_id |-> ref_id,
     atoms |-> atoms]

\* "## <title>"
LinkHeading(hashes, title) ==
    LinkLine("heading", title, <<>>, "", <<hashes, " ">> \o title)
\* "<text>"
LinkText(text) == LinkLine("text", text, <<>>, "", text)
\* "[<text>](<url>)"
InlineLink(text, url) ==
    LinkLine("inline", text, url, "", <<"[">> \o text \o <<"](">> \o url \o <<")">>)
\* "[<text>][<ref_id>]"
RefLink(text, ref_id) ==
    LinkLine("ref", text, <<>>, ref_id, <<"[">> \o text \o <<"][", ref_id, "]">>)
\* "[<ref_id>]: <url>"
RefDef(ref_id, url) ==
    LinkLine("def", <<>>, url, ref_id, <<"[", ref_id, "]:", " ">> \o url)

\* A path below the spec directory: the sub-directory ("" for the spec
\* directory itself) and the file name.
LinkPath(dir, name) == [dir |-> dir, name |-> name]

\* f.read(): the lines joined by newlines.
RECURSIVE ReadFrom(_, _)
ReadFrom(file, k) ==
    IF k > Len(file) THEN <<>>
    ELSE file[k].atoms \o (IF k < Len(file) THEN <<"\n">> ELSE <<>>)
         \o ReadFrom(file, k + 1)

Read(file) == ReadFrom(file, 1)

\* str.lower() of an atom.
LowerAtom(atom) ==
    CASE atom = "Executive" -> "executive"
      [] atom = "Summary"   -> "summary"
      [] atom = "Overview"  -> "overview"
      [] atom = "See"       -> "see"
      [] OTHER              -> atom

\* str.lower()
LowerText(text) == [k \in DOMAIN text |-> LowerAtom(text[k])]

\* str.replace(' ', '-')
ReplaceSpaces(text) ==
    [k \in DOMAIN text |-> IF text[k] = " " THEN "-" ELSE text[k]]

\* a in b, for strings
InText(a, b) ==
    \E from \in 1..(Len(b) - Len(a) + 1) :
        SubSeq(b, from, from + Len(a) - 1) = a

\* link_url.startswith(('http://', 'https://', 'mailto:'))
IsExternal(link_url) == link_url[1] \in {"http://", "https://", "mailto:"}

\* '#' in link_url, and the position of the first one
HashPositions(link_url) == { k \in 1..Len(link_url) : link_url[k] = "#" }
FirstHash(link_url) ==
    CHOOSE k \in HashPositions(link_url) :
        \A j \in HashPositions(link_url) : k <= j


\* The counters and lists of the validator.
LinkState(total, valid, errs, warns) ==
    [total_links |-> total, valid_links |-> valid, errors |-> errs,
     warnings |-> warns]

\* The message of an error or warning about a link of a file.
LinkMessage(text, link, file) ==
    Message(text, [link |-> link, file |-> file])

\* _validate_single_link.  The file part of a relative link is one atom, a
\* file name, resolved against the directory of the source file.
validate_single_link(fs, source_file, link_url, acc) ==
    IF IsExternal(link_url)
    THEN [acc EXCEPT !.valid_links = @ + 1]
    ELSE IF link_url[1] = "#"
    THEN LET anchor == ReplaceSpaces(LowerText(Tail(link_url)))
             file_content == LowerText(Read(fs[source_file]))
         IN IF ~InText(anchor, file_content)
            THEN [acc EXCEPT !.warnings =
                    Append(@, LinkMessage("Anchor not found", link_url,
                                          source_file))]
            ELSE [acc EXCEPT !.valid_links = @ + 1]
    ELSE LET split == HashPositions(link_url) # {}
             file_part == IF split
                          THEN SubSeq(link_url, 1, FirstHash(link_url) - 1)
                          ELSE link_url
             anchor_part == IF split
                            THEN SubSeq(link_url, FirstHash(link_url) + 1,
                                        Len(link_url))
                            ELSE <<>>
             target_path == LinkPath(source_file.dir, file_part[1])
         IN IF target_path \notin DOMAIN fs
            THEN [acc EXCEPT !.errors =
                    Append(@, LinkMessage("Broken link - file not found",
                                          link_url, source_file))]
            ELSE IF anchor_part # <<>>
            THEN LET anchor == ReplaceSpaces(LowerText(anchor_part))
                     file_content == LowerText(Read(fs[target_path]))
                 IN IF ~InText(anchor, file_content)
                    THEN [acc EXCEPT !.warnings =
                            Append(@, LinkMessage("Anchor not found",
                                                  <<"#">> \o anchor_part,
                                                  target_path))]
                    ELSE [acc EXCEPT !.valid_links = @ + 1]
            ELSE [acc EXCEPT !.valid_links = @ + 1]

\* _validate_file_links: the loop over the inline links, from line k on.
RECURSIVE inline_links_loop(_, _, _, _)
inline_links_loop(fs, file_path, k, acc) ==
    IF k > Len(fs[file_path]) THEN acc
    ELSE inline_links_loop(fs, file_path, k + 1,
           IF fs[file_path][k].kind = "inline"
           THEN validate_single_link(fs, file_path, fs[file_path][k].url,
                                     [acc EXCEPT !.total_links = @ + 1])
           ELSE acc)

\* _validate_file_links: ref_defs, the last definition of an id winning.
RECURSIVE ref_defs_loop(_, _, _)
ref_defs_loop(file, k, ref_defs) ==
    IF k > Len(file) THEN ref_defs
    ELSE ref_defs_loop(file, k + 1,
           IF file[k].kind = "def"
           THEN [id \in DOMAIN ref_defs \cup {file[k].ref_id} |->
                   IF id = file[k].ref_id THEN file[k].url ELSE ref_defs[id]]
           ELSE ref_defs)

\* _validate_file_links: the loop over the reference links, from line k on.
RECURSIVE ref_links_loop(_, _, _, _, _)
ref_links_loop(fs, file_path, ref_defs, k, acc) ==
    IF k > Len(fs[file_path]) THEN acc
    ELSE ref_links_loop(fs, file_path, ref_defs, k + 1,
           IF fs[file_path][k].kind = "ref"
           THEN IF fs[file_path][k].ref_id \in DOMAIN ref_defs
                THEN validate_single_link(fs, file_path,
                         ref_defs[fs[file_path][k].ref_id],
                         [acc EXCEPT !.total_links = @ + 1])
                ELSE [acc EXCEPT !.total_links = @ + 1,
                                 !.errors =
                        Append(@, LinkMessage("Undefined reference",
                                              fs[file_path][k].ref_id,
                                              file_path))]
           ELSE acc)

\* _validate_file_links
validate_file_links(fs, file_path, acc) ==
    ref_links_loop(fs, file_path,
                   ref_defs_loop(fs[file_path], 1, [id \in {} |-> <<>>]), 1,
                   inline_links_loop(fs, file_path, 1, acc))

\* _find_markdown_files: the spec file, then the files of .spec/ and of
\* templates/ (at most one file in each directory is tried).
InDirectory(fs, dir) == { path \in DOMAIN fs : path.dir = dir }

RECURSIVE AsSequence(_)
AsSequence(S) ==
    IF S = {} THEN <<>>
    ELSE LET x == CHOOSE x \in S : TRUE IN <<x>> \o AsSequence(S \ {x})

find_markdown_files(fs, spec_path) ==
    <<spec_path>> \o AsSequence(InDirectory(fs, ".spec"))
    \o AsSequence(InDirectory(fs, "templates"))

\* ---- the files validated

SpecPath == LinkPath("", "SPEC.md")

LinkLines ==
    { LinkHeading("##", <<"Executive", " ", "Summary">>),
      LinkHeading("#", <<"Overview">>),
      LinkText(<<"plain", " ", "text">>),
      InlineLink(<<"See">>, <<"#", "executive", "-", "summary">>),
      InlineLink(<<"See">>, <<"#", "Executive", " ", "Summary">>),
      InlineLink(<<"see">>, <<"#", "no", "-", "such", "-", "heading">>),
      InlineLink(<<"site">>, <<"https://", "example.com">>),
      InlineLink(<<"other">>, <<"other.md">>),
      InlineLink(<<"other">>, <<"other.md", "#", "overview">>),
      InlineLink(<<"other">>, <<"other.md", "#", "absent">>),
      InlineLink(<<"gone">>, <<"missing.md">>),
      RefLink(<<"see">>, "ref1"),
      RefLink(<<"see">>, "ref2"),
      RefDef("ref1", <<"#", "overview">>) }

\* The files beside the spec: other.md or not, a file in .spec/ or not.
SiblingFiles ==
    { <<>>,
      << <<LinkPath("", "other.md"), <<LinkHeading("#", <<"Overview">>)>> >> >>,
      << <<LinkPath(".spec", "extra.md"),
           <<InlineLink(<<"see">>, <<"#", "no", "-", "such", "-", "heading">>),
             InlineLink(<<"other">>, <<"other.md">>)>> >> >>,
      << <<LinkPath("", "other.md"), <<LinkText(<<"plain", " ", "text">>)>> >>,
         <<LinkPath("templates", "t.md"),
           <<LinkHeading("#", <<"Overview">>),
             InlineLink(<<"See">>, <<"#", "overview">>)>> >> >> }

\* The file system with a spec file and siblings.
LinkFileSystem(spec_lines, siblings) ==
    [path \in {SpecPath} \cup {siblings[k][1] : k \in 1..Len(siblings)} |->
        IF path = SpecPath THEN spec_lines
        ELSE siblings[CHOOSE k \in 1..Len(siblings) :
                         siblings[k][1] = path][2] ]


\* ---- the process: main() and LinkValidator.validate()

InitLinks ==
    /\ pc = "find_markdown_files"
    /\ exit_code = NoExit
    /\ link_fs \in { LinkFileSystem(spec_lines, siblings) :
                       spec_lines \in SeqsUpTo(LinkLines, MaxLinkLines),
                       siblings \in SiblingFiles }
    /\ md_files = <<>>
    /\ file_k = 1
    /\ total_links = 0
    /\ valid_links = 0
    /\ errors = <<>>
    /\ warnings = <<>>
    /\ spec_exists = FALSE
    /\ strict = FALSE
    /\ IdleOrch
    /\ IdleScorer
    /\ IdleStruct
    /\ IdleTrace
    /\ IdleAlign
    /\ IdlePlan

\* validate: md_files = self._find_markdown_files()
links_find_markdown_files ==
    /\ pc = "find_markdown_files"
    /\ md_files' = find_markdown_files(link_fs, SpecPath)
    /\ pc' = "validate_file_links"
    /\ UNCHANGED <<exit_code, spec_exists, strict, link_fs, file_k,
                   total_links, valid_links, listVars, notLinks>>

\* validate: one turn of 'for md_file in md_files'
links_validate_file_links ==
    /\ pc = "validate_file_links"
    /\ file_k <= Len(md_files)
    /\ LET after == validate_file_links(link_fs, md_files[file_k],
                        LinkState(total_links, valid_links, errors, warnings))
       IN /\ total_links' = after.total_links
          /\ valid_links' = after.valid_links
          /\ errors' = after.errors
          /\ warnings' = after.warnings
    /\ file_k' = file_k + 1
    /\ UNCHANGED <<pc, exit_code, spec_exists, strict, link_fs, md_files,
                   notLinks>>

\* _report_results and the sys.exit of main
links_report_results ==
    /\ pc = "validate_file_links"
    /\ file_k > Len(md_files)
    /\ exit_code' = IF Len(errors) = 0 THEN 0 ELSE 1
    /\ pc' = "exited"
    /\ UNCHANGED <<spec_exists, strict, linkVars, listVars, notLinks>>

NextLinks ==
    \/ links_find_markdown_files
    \/ links_validate_file_links
    \/ links_report_results

SpecLinks == InitLinks /\ [][NextLinks]_vars


(***************************************************************************)
(*                 Properties of validate-spec-links.py                    *)
(***************************************************************************)

LinksEnded == pc = "exited" /\ md_files # <<>>

\* The anchor form of a heading title or of an anchor as written: lower
\* case, spaces replaced by hyphens.
AnchorForm(text) == ReplaceSpaces(LowerText(text))

\* The file holds a heading whose anchor form is that of the anchor.
HasHeadingFor(file, anchor) ==
    \E k \in 1..Len(file) :
        /\ file[k].kind = "heading"
        /\ AnchorForm(file[k].text) = AnchorForm(anchor)

\* The in-document anchor links [text](#a) of the files checked for which
\* the file holds no heading, by file and line.
DanglingAnchorLinks ==
    { at \in UNION { {<<n, k>> : k \in 1..Len(link_fs[md_files[n]])} :
                       n \in 1..Len(md_files) } :
        LET line == link_fs[md_files[at[1]]][at[2]]
        IN /\ line.kind = "inline"
           /\ line.url[1] = "#"
           /\ ~HasHeadingFor(link_fs[md_files[at[1]]], Tail(line.url)) }

\* C28: an in-document anchor link [text](#a) of a file without a heading
\* whose anchor form is a is not counted valid and has a warning 'Anchor ...
\* not found' recorded for it.
C28_AnchorLinkValidOnlyWithHeading ==
    LinksEnded =>
        /\ \A at \in DanglingAnchorLinks :
              \E w \in 1..Len(warnings) :
                  warnings[w]
                    = LinkMessage("Anchor not found",
                                  link_fs[md_files[at[1]]][at[2]].url,
                                  md_files[at[1]])
        /\ valid_links + Cardinality(DanglingAnchorLinks) <= total_links


(***************************************************************************)
(*      Further properties of validate-requirements-traceability.py        *)
(***************************************************************************)

\* The acceptance-trace step of a traceability pass is over.
AcceptanceStepDone ==
    /\ tr_content # <<>>
    /\ pc \in {"find_risk_traces", "validate_coverage", "report_results",
               "exited"}

\* C29: after the acceptance-trace step every extracted requirement has its
\* acceptance trace set, with or without acceptance-scenario files beside
\* the spec, and no warning 'Functional requirement <id> lacks acceptance
\* scenarios' is ever emitted.
C29_EveryRequirementHasAcceptanceTrace ==
    /\ AcceptanceStepDone => AllKeys(requirements) \subseteq traces.to_acceptance
    /\ \A n \in 1..Len(warnings) :
          warnings[n].message
            # "Functional requirement lacks acceptance scenarios"

\* C29 witness: a pass over a spec with a functional and a non-functional
\* requirement and no acceptance-scenario file ended with both traced to
\* acceptance.
C29_Witness ==
    /\ Traced
    /\ \A k \in 1..Len(scenario_files) : ~scenario_files[k].exists
    /\ Keys(requirements.functional) # {}
    /\ Keys(requirements.non_functional) # {}
    /\ AllKeys(requirements) \subseteq traces.to_acceptance


(***************************************************************************)
(*                Further properties of validate-all.py                    *)
(***************************************************************************)

\* C30: the final report prints 'Spec is ready to proceed!' only if no
\* validator was counted as failed and a quality score was extracted from
\* the Quality Scoring output and is at least 90.
C30_ReadyOnlyWithoutFailureAndScoreAtLeast90 ==
    (RanToEnd /\ next_steps = "Spec is ready to proceed!") =>
        /\ failed = 0
        /\ quality_score # NoScore
        /\ quality_score >= 90


\* C30 witness: a run in which the four validators passed with a score of
\* at least 90 ended with the verdict.
C30_Witness ==
    /\ RanToEnd
    /\ next_steps = "Spec is ready to proceed!"
    /\ passed >= 4
    /\ failed = 0
    /\ quality_score \in 90..100


(***************************************************************************)
(*                  scripts/generate_phase_plan_v2.py                      *)
(***************************************************************************)

\* load_config: required_sections
plan_required_sections ==
    << "phase", "prerequisites", "resources", "overview", "methodology",
       "done_criteria", "work_breakdown" >>

\* A section generator of generate_plan: the config key it reads, and whether
\* it reads it unguarded ("required"), returns at once when the key is not
\* in the config ("optional"), or reads no config at all ("fixed").
Generator(key, kind) == [key |-> key, kind |-> kind]

\* generate_plan: the section generators, in call order.
generators ==
    << Generator("phase", "required"),
       Generator("prerequisites", "required"),
       Generator("resources", "required"),
       Generator("overview", "required"),
       Generator("build_commands", "optional"),
       Generator("review_process", "optional"),
       Generator("methodology", "required"),
       Generator("done_criteria", "required"),
       Generator("work_breakdown", "required"),
       Generator("troubleshooting", "optional"),
       Generator("security_requirements", "optional"),
       Generator("learning_path", "optional"),
       Generator("next_phase", "optional"),
       Generator("footer", "fixed") >>

\* A JSON configuration: its top-level sections, each either with every
\* field its generator reads by subscript ("complete") or lacking one of
\* them ("missing_field"), and config['phase']['number'].
Config(sections, number) == [sections |-> sections, number |-> number]

\* A line block of self.output_lines: the generator that added it, and
\* whether the generator ran to its end.
Block(section, complete) == [section |-> section, complete |-> complete]

\* load_config: missing_sections
missing_sections(cfg) ==
    SelectSeq(plan_required_sections, LAMBDA sec : sec \notin DOMAIN cfg.sections)

\* A subscript of a section generator finds no such key, had every field been
\* read with .get() and a default.
field_missing_never(cfg, key) == FALSE

\* A subscript of a section generator finds no such key: the KeyError.
field_missing(cfg, key) ==
    key \notin DOMAIN cfg.sections \/ cfg.sections[key] = "missing_field"

\* One section generator: the exception it raises and the output_lines it
\* leaves.  A generator that raises may have added its first lines.
generate_section(cfg, generator, out) ==
    IF generator.kind = "fixed"
    THEN [raised |-> "none", lines |-> Append(out, Block(generator.key, TRUE))]
    ELSE IF generator.kind = "optional" /\ generator.key \notin DOMAIN cfg.sections
    THEN [raised |-> "none", lines |-> out]
    ELSE IF field_missing(cfg, generator.key)
    THEN [raised |-> "KeyError",
          lines |-> Append(out, Block(generator.key, FALSE))]
    ELSE [raised |-> "none", lines |-> Append(out, Block(generator.key, TRUE))]

\* ensure_output_directory: <project_root>/.claude/.plan/phase-<number>
OutputDir(project_root, phase_number) ==
    [root |-> project_root, path |-> ".claude/.plan", phase |-> phase_number]

\* main: project_root = sys.argv[2] if len(sys.argv) > 2 else None (the
\* current directory)
project_root(args) == IF Len(args) > 1 THEN args[2] ELSE "cwd"

\* with open(output_file, 'w') ... f.write(content): the file system after.
write_file(files, dir, file_content) ==
    [d \in DOMAIN files \cup {dir} |->
        IF d = dir THEN file_content ELSE files[d]]

\* ---- the configurations and file systems tried

OptionalSections ==
    { "build_commands", "review_process", "troubleshooting",
      "security_requirements", "learning_path", "next_phase" }
RequiredSections ==
    { plan_required_sections[k] : k \in 1..Len(plan_required_sections) }

\* Complete configurations, without and with the optional sections;
\* configurations that lack one required section; configurations in which
\* one section lacks a field.
PlanConfigs ==
    { Config([sec \in RequiredSections \cup opt |-> "complete"], number) :
        opt \in {{}, OptionalSections}, number \in {1, 5} }
    \cup { Config([sec \in (RequiredSections \ {gone}) \cup OptionalSections
                     |-> IF sec = "phase" /\ gone = "overview"
                         THEN "missing_field" ELSE "complete"], 1) :
             gone \in RequiredSections \ {"phase"} }
    \cup { Config([sec \in RequiredSections \ {"phase"} |-> "complete"], 1) }
    \cup { Config([sec \in RequiredSections \cup OptionalSections
                     |-> IF sec = broken THEN "missing_field" ELSE "complete"],
                  1) :
             broken \in RequiredSections \cup OptionalSections }

\* The configuration file: missing, not valid JSON, or holding a config.
ConfigFile(exists, valid_json, data) ==
    [exists |-> exists, valid_json |-> valid_json, data |-> data]

ConfigFilesTried ==
    { ConfigFile(FALSE, FALSE, NoConfig), ConfigFile(TRUE, FALSE, NoConfig) }
    \cup { ConfigFile(TRUE, TRUE, cfg) : cfg \in PlanConfigs }

\* The WORK_PLAN.md files before the run: none, or one of an earlier run in
\* the phase 1 directory of a project root.
NoFiles == [d \in {} |-> <<>>]
EarlierPlan == << Block("earlier run", TRUE) >>
WorkPlansBefore ==
    { NoFiles }
    \cup { write_file(NoFiles, OutputDir(root, 1), EarlierPlan) :
             root \in {"cwd", "out"} }

\* ---- the process: main() and NarrativeWorkPlanGenerator.generate_plan()

InitPlan ==
    /\ pc = "main"
    /\ exit_code = NoExit
    /\ spec_exists = FALSE
    /\ strict = FALSE
    /\ plan_argv \in { <<>>, <<"config.json">>, <<"config.json", "out">> }
    /\ config_file \in ConfigFilesTried
    /\ config = NoConfig
    /\ gen_k = 1
    /\ output_lines = <<>>
    /\ raised = "none"
    /\ work_plan \in WorkPlansBefore
    /\ output_dirs = DOMAIN work_plan
    /\ IdleLists
    /\ IdleLinks
    /\ IdleOrch
    /\ IdleScorer
    /\ IdleStruct
    /\ IdleTrace
    /\ IdleAlign

\* main: the usage text and exit code 1 without a config path.
plan_main ==
    /\ pc = "main"
    /\ IF Len(plan_argv) < 1
       THEN pc' = "exited" /\ exit_code' = 1
       ELSE pc' = "load_config" /\ exit_code' = exit_code
    /\ UNCHANGED <<planVars, notPlan>>

\* generate_plan: self.load_config(config_path) and self.output_lines = [];
\* an exception ends generate_plan, and main exits with code 1.
plan_load_config ==
    /\ pc = "load_config"
    /\ IF ~config_file.exists
       THEN /\ raised' = "FileNotFoundError"
            /\ config' = config
       ELSE IF ~config_file.valid_json
       THEN /\ raised' = "ValueError"
            /\ config' = config
       ELSE /\ config' = config_file.data
            /\ raised' = IF missing_sections(config_file.data) # <<>>
                         THEN "ValueError" ELSE "none"
    /\ IF raised' = "none"
       THEN pc' = "generate" /\ exit_code' = exit_code
       ELSE pc' = "exited" /\ exit_code' = 1
    /\ output_lines' = <<>>
    /\ gen_k' = 1
    /\ UNCHANGED <<plan_argv, config_file, output_dirs, work_plan, notPlan>>

\* generate_plan: the next section generator.
plan_generate_section ==
    /\ pc = "generate"
    /\ gen_k <= Len(generators)
    /\ LET after == generate_section(config, generators[gen_k], output_lines)
       IN /\ output_lines' = after.lines
          /\ raised' = after.raised
          /\ IF after.raised = "none"
             THEN pc' = pc /\ exit_code' = exit_code /\ gen_k' = gen_k + 1
             ELSE pc' = "exited" /\ exit_code' = 1 /\ gen_k' = gen_k
    /\ UNCHANGED <<plan_argv, config_file, config, output_dirs, work_plan,
                   notPlan>>

\* generate_plan: ensure_output_directory, the write of WORK_PLAN.md, and
\* main's exit.  The directory is taken to be writable.
plan_write_work_plan ==
    /\ pc = "generate"
    /\ gen_k > Len(generators)
    /\ LET output_dir == OutputDir(project_root(plan_argv), config.number)
       IN /\ output_dirs' = output_dirs \cup {output_dir}
          /\ work_plan' = write_file(work_plan, output_dir, output_lines)
    /\ pc' = "exited"
    /\ exit_code' = 0
    /\ UNCHANGED <<plan_argv, config_file, config, gen_k, output_lines, raised,
                   notPlan>>

NextPlan ==
    \/ plan_main
    \/ plan_load_config
    \/ plan_generate_section
    \/ plan_write_work_plan

SpecPlan == InitPlan /\ [][NextPlan]_vars


(***************************************************************************)
(*            Properties of scripts/generate_phase_plan_v2.py              *)
(***************************************************************************)

\* The run loaded a configuration from the file named on the command line.
ConfigGiven ==
    /\ Len(plan_argv) >= 1
    /\ config_file.exists
    /\ config_file.valid_json

\* A section of the loaded configuration lacks a field its generator reads.
SomeFieldMissing(cfg) ==
    \E key \in DOMAIN cfg.sections : cfg.sections[key] = "missing_field"

\* Where the plan of this run belongs.
PlanDir == OutputDir(project_root(plan_argv), config.number)

=============================================================================
